---------------------------- MODULE Spec2Model ----------------------------
(***************************************************************************)
(* A model of V2Mackie (src/src/V2Mackie.h, src/src/V2Mackie.cpp): the     *)
(* Mackie Control codec.  The state is the object's private members, the   *)
(* operations are its public entry points (reset, loop, dispatchPacket,    *)
(* dispatchSystemExclusive, the static set...() encoders), and every       *)
(* virtual handle...() call is recorded in the variable events.            *)
(***************************************************************************)
EXTENDS Integers, Sequences, FiniteSets, TLC

VARIABLES
  now,          \* the value micros() returns, a 32-bit counter <<hi, lo>>
  active_usec,  \* _active_usec
  display,      \* _display.strip[112]; C's element i is display[i + 1]
  timeType,     \* _display.time.type
  timeDigits,   \* _display.time.digits[10], likewise
  strips,       \* _strips[8], likewise
  main,         \* _main
  bank,         \* _bank
  transport,    \* _transport
  navigation,   \* _navigation
  events,       \* the handle...() calls of the most recent operation, in order
  op,           \* the most recent operation and its arguments
  nops,         \* the number of bounded steps (ticks, notes, frames) taken so far
  hbPending,    \* history: a heartbeat arrived and no timeout or reset since
  hbTime,       \* history: micros() at the most recent heartbeat
  meterTime,    \* history: micros() at each strip's most recent meter message
  lastNote,     \* history: the last velocity dispatched, per channel-0 note seen
  shown,        \* history: each display block's text when last notified (or reset)
  packet,       \* the caller's V2MIDI::Packet (NULL: no packet)
  input         \* the arguments the caller holds for the encoders

codec == <<active_usec, display, timeType, timeDigits, strips, main, bank,
           transport, navigation>>
history == <<hbPending, hbTime, meterTime, lastNote, shown>>
vars == <<now, codec, events, op, nops, history, packet, input>>

---------------------------------------------------------------------------
(* Bounds of the model. *)

\* Tick actions per behaviour of the heartbeat specification.
MaxTicks == 4
\* Tick actions per behaviour of the meter specification.
MaxMeterTicks == 3
\* Operations per behaviour of the note specification.
MaxNotes == 2
\* Frames per behaviour of the display specification.
MaxFrames == 2
\* Fader fractions are the floats n / 2^FracBits, n in 0..2^FracBits.
FracBits == 15

---------------------------------------------------------------------------
(* Integer helpers. *)

RECURSIVE Pow2(_)
Pow2(n) == IF n = 0 THEN 1 ELSE 2 * Pow2(n - 1)

Abs(x) == IF x < 0 THEN -x ELSE x
Sign(x) == IF x < 0 THEN -1 ELSE 1

\* C's x & mask for a mask 2^k - 1, and x >> k, on non-negative x.
BitAnd(x, mask) == x % (mask + 1)
ShiftRight(x, k) == x \div Pow2(k)
\* Bit k of x.
Bit(x, k) == (x \div Pow2(k)) % 2 = 1
\* C's x | y on non-negative x and y.
RECURSIVE BitOr(_, _)
BitOr(x, y) ==
  IF x = 0 THEN y
  ELSE IF y = 0 THEN x
  ELSE (IF x % 2 = 1 \/ y % 2 = 1 THEN 1 ELSE 0) + 2 * BitOr(x \div 2, y \div 2)

---------------------------------------------------------------------------
(* IEEE-754 single precision, as the code's float arithmetic computes it.  *)
(* A float is <<s, m, e>> with value s * m * 2^(-e), s in {1, -1} and      *)
(* 2^23 <= m < 2^24 (24 significant bits), or <<1, 0, 0>> for zero.        *)

F32Zero == <<1, 0, 0>>
F32One == <<1, 8388608, 23>>

\* |a| / |b| = (q + r / b) / 2^e: shift left until q has 24 bits.
RECURSIVE F32DivNorm(_, _, _, _)
F32DivNorm(q, r, b, e) ==
  IF q >= 8388608 THEN <<q, r, e>>
  ELSE F32DivNorm(2 * q + (IF 2 * r >= b THEN 1 ELSE 0),
                  IF 2 * r >= b THEN 2 * r - b ELSE 2 * r, b, e + 1)

\* (float)a / (float)b for integers |a| < 2^24, 0 < |b| < 2^24: the quotient
\* rounded to nearest, ties to even.
F32Div(a, b) ==
  IF a = 0 THEN F32Zero
  ELSE LET n == F32DivNorm(Abs(a) \div Abs(b), Abs(a) % Abs(b), Abs(b), 0)
           q == n[1]
           r == n[2]
           e == n[3]
           up == 2 * r > Abs(b) \/ (2 * r = Abs(b) /\ q % 2 = 1)
           q1 == IF up THEN q + 1 ELSE q
       IN  IF q1 = 16777216 THEN <<Sign(a) * Sign(b), 8388608, e - 1>>
           ELSE <<Sign(a) * Sign(b), q1, e>>

\* (float)a for an integer |a| < 2^24: exact.
F32FromInt(a) == F32Div(a, 1)

\* The mantissa without its trailing zero bits: m * 2^(-e) = m' * 2^(-e').
RECURSIVE F32Odd(_, _)
F32Odd(m, e) == IF m % 2 = 0 /\ m > 0 THEN F32Odd(m \div 2, e - 1) ELSE <<m, e>>

\* p * 2^(-e), p > 0, rounded to 24 significant bits, ties to even; sticky
\* says that a nonzero bit was already shifted out.
RECURSIVE F32Round(_, _, _)
F32Round(p, e, sticky) ==
  IF p < 8388608 THEN F32Round(2 * p, e + 1, sticky)
  ELSE IF p < 16777216 THEN <<p, e>>
  ELSE IF p >= 33554432 THEN F32Round(p \div 2, e - 1, sticky \/ p % 2 = 1)
  ELSE LET q == p \div 2
           up == p % 2 = 1 /\ (sticky \/ q % 2 = 1)
           q1 == IF up THEN q + 1 ELSE q
       IN  IF q1 = 16777216 THEN <<8388608, e - 2>> ELSE <<q1, e - 1>>

\* f * (float)k for an integer k > 0, rounded as the FPU rounds the product.
F32MulInt(f, k) ==
  IF f[2] = 0 THEN F32Zero
  ELSE LET o == F32Odd(f[2], f[3])
           r == F32Round(o[1] * k, o[2], FALSE)
       IN  <<f[1], r[1], r[2]>>

\* The conversion of a float to an integer type: truncation towards zero.
F32Trunc(f) ==
  IF f[3] >= 24 THEN 0
  ELSE IF f[3] >= 0 THEN f[1] * (f[2] \div Pow2(f[3]))
  ELSE f[1] * f[2] * Pow2(-f[3])

\* f <= 0.f
F32LeZero(f) == f[2] = 0 \/ f[1] = -1

\* floor(f * 2^k) and ceil(f * 2^k) for a float 0 <= f < 2^(24-k), k <= 23.
F32FloorScaled(f, k) ==
  IF f[2] = 0 THEN 0
  ELSE IF f[3] - k > 30 THEN 0
  ELSE IF f[3] >= k THEN f[2] \div Pow2(f[3] - k)
  ELSE f[2] * Pow2(k - f[3])
F32CeilScaled(f, k) ==
  IF f[2] = 0 THEN 0
  ELSE IF f[3] - k > 30 THEN 1
  ELSE IF f[3] >= k
       THEN (f[2] \div Pow2(f[3] - k)) + (IF f[2] % Pow2(f[3] - k) = 0 THEN 0 ELSE 1)
  ELSE f[2] * Pow2(k - f[3])

---------------------------------------------------------------------------
(* micros(): an unsigned long of 32 bits on the Arduino targets of the      *)
(* library, held as two 16-bit halves <<hi, lo>>.                           *)

Half == 65536

U32(n) == <<(n \div Half) % Half, n % Half>>
U32Zero == <<0, 0>>

\* a + d modulo 2^32, for an increment 0 <= d < 2^30.
U32Add(a, d) ==
  LET lo == a[2] + d
  IN  <<(a[1] + lo \div Half) % Half, lo % Half>>

\* (unsigned long)(a - b)
U32Sub(a, b) ==
  LET lo == a[2] - b[2]
      borrow == IF lo < 0 THEN 1 ELSE 0
  IN  <<(a[1] - b[1] - borrow + 2 * Half) % Half, (lo + Half) % Half>>

\* a > c and a < c for a constant 0 <= c < 2^31.
U32Gt(a, c) == a[1] >= Half \div 2 \/ a[1] * Half + a[2] > c
U32Lt(a, c) == a[1] < Half \div 2 /\ a[1] * Half + a[2] < c

---------------------------------------------------------------------------
(* Addresses (namespace Mackie). *)

Space == 32
DisplaySize == 112

VendorId == <<0, 0, 102>>
DeviceControl == 20
DeviceControlXT == 21
TypeDisplay == 18

TimeDigit == 64
VPotLED == 48
VPotPush == 32
ButtonArm == 0
ButtonSolo == 8
ButtonMute == 16
ButtonSelect == 24
FaderTouch == 104
ProtocolPing == 127

VPotSingle == 0
VPotBoost == 1
VPotBar == 2
VPotSpread == 3

\* case base ... base + 7
InStripRange(x, base) == base <= x /\ x <= base + 7

Strips == 0..7
Rows == 0..1
Bytes == 0..127

---------------------------------------------------------------------------
(* The object's state as one record, and the state reset() leaves. *)

State ==
  [active_usec |-> active_usec, display |-> display, timeType |-> timeType,
   timeDigits |-> timeDigits, strips |-> strips, main |-> main, bank |-> bank,
   transport |-> transport, navigation |-> navigation]

\* memset(_strips, 0, sizeof(_strips)): one zeroed element of _strips.
StripZero ==
  [display |-> [r \in 1..2 |-> [c \in 1..7 |-> 0]],
   vpot |-> [mode |-> "Off", center |-> FALSE, value |-> F32Zero, click |-> FALSE],
   fader |-> [position |-> F32Zero, touch |-> FALSE],
   button |-> [arm |-> FALSE, mute |-> FALSE, select |-> FALSE, solo |-> FALSE],
   meter |-> [fraction |-> F32Zero, overload |-> FALSE, usec |-> U32Zero]]

reset ==
  [active_usec |-> U32Zero,
   display |-> [i \in 1..DisplaySize |-> Space],
   timeType |-> "SMPTE",
   timeDigits |-> [i \in 1..10 |-> 0],
   strips |-> [s \in 1..8 |-> StripZero],
   main |-> [fader |-> F32Zero],
   bank |-> [flip |-> FALSE, edit |-> FALSE],
   transport |-> [rewind |-> FALSE, forward |-> FALSE, stop |-> FALSE,
                  play |-> FALSE, record |-> FALSE],
   navigation |-> [zoom |-> FALSE, scrub |-> FALSE]]

\* A handler's result: the state it leaves and the handle...() calls it made.
Result(st, ev) == [st |-> st, ev |-> ev]
Emit(r, e) == [st |-> r.st, ev |-> Append(r.ev, e)]

---------------------------------------------------------------------------
(* loop() *)

GraceUsec == 5000000
DecayUsec == 1000000

\* The heartbeat part of loop().
loopTimeout(st, t) ==
  IF st.active_usec # U32Zero /\ U32Gt(U32Sub(t, st.active_usec), GraceUsec)
  THEN Result([st EXCEPT !.active_usec = U32Zero], <<<<"handleTimeout">>>>)
  ELSE Result(st, <<>>)

\* loopMeterSkips with the comparison <= in place of <.
loopMeterSkips_AfterOnly(m, t) ==
  \/ F32LeZero(m.fraction)
  \/ U32Lt(U32Sub(t, m.usec), DecayUsec + 1)

\* Whether loop() leaves strip i's meter alone (the two continue statements).
loopMeterSkips(m, t) ==
  \/ F32LeZero(m.fraction)
  \/ U32Lt(U32Sub(t, m.usec), DecayUsec)

\* The body of loop()'s for statement for strips i..7.
RECURSIVE loopMeter(_, _, _)
loopMeter(r, t, i) ==
  IF i > 7 THEN r
  ELSE IF loopMeterSkips(r.st.strips[i + 1].meter, t) THEN loopMeter(r, t, i + 1)
  ELSE loopMeter(
         Emit([r EXCEPT !.st.strips[i + 1].meter = StripZero.meter],
              <<"handleStripMeter", i, F32Zero, FALSE>>),
         t, i + 1)

loop(st, t) == loopMeter(loopTimeout(st, t), t, 0)

---------------------------------------------------------------------------
(* getStripDisplay() *)

\* Trim trailing spaces.
RECURSIVE TrimSpaces(_)
TrimSpaces(text) ==
  IF Len(text) > 0 /\ text[Len(text)] = Space
  THEN TrimSpaces(SubSeq(text, 1, Len(text) - 1))
  ELSE text

\* The C string in text: the characters before the first NUL.
RECURSIVE CString(_)
CString(text) ==
  IF text = <<>> \/ Head(text) = 0 THEN <<>>
  ELSE <<Head(text)>> \o CString(Tail(text))

\* The string the caller finds in text[8].
getStripDisplay(st, strip, row) ==
  CString(TrimSpaces([c \in 1..7 |-> st.display[(56 * row) + (7 * strip) + c]]))

---------------------------------------------------------------------------
(* dispatchNote() *)

\* StripButtonEvent reporting every message as a press.
StripButtonEvent_Pressed(strip, button, on) == <<"handleStripButton", strip, button, TRUE>>

StripButtonEvent(strip, button, on) == <<"handleStripButton", strip, button, on>>

\* A dispatchNote that takes note 53 (SMPTE/Beats) on channel 0 for the
\* switch of the time display's type.
dispatchNote_SMPTEBeats(st, t, channel, note, velocity) ==
  IF channel = 0 /\ note = 53 /\ velocity = 127
  THEN Result([st EXCEPT !.timeType = IF st.timeType = "SMPTE" THEN "Beats" ELSE "SMPTE"],
              <<>>)
  ELSE Result(st, <<>>)

dispatchNote(st, t, channel, note, velocity) ==
  LET on == velocity = 127
  IN
  IF channel = 0 THEN
    IF InStripRange(note, VPotPush) THEN
      Result([st EXCEPT !.strips[note - VPotPush + 1].vpot.click = on],
             <<StripButtonEvent(note - VPotPush, "VPot", on)>>)
    ELSE IF InStripRange(note, ButtonArm) THEN
      Result([st EXCEPT !.strips[note - ButtonArm + 1].button.arm = on],
             <<StripButtonEvent(note - ButtonArm, "Arm", on)>>)
    ELSE IF InStripRange(note, ButtonSolo) THEN
      Result([st EXCEPT !.strips[note - ButtonSolo + 1].button.solo = on],
             <<StripButtonEvent(note - ButtonSolo, "Solo", on)>>)
    ELSE IF InStripRange(note, ButtonMute) THEN
      Result([st EXCEPT !.strips[note - ButtonMute + 1].button.mute = on],
             <<StripButtonEvent(note - ButtonMute, "Mute", on)>>)
    ELSE IF InStripRange(note, ButtonSelect) THEN
      Result([st EXCEPT !.strips[note - ButtonSelect + 1].button.select = on],
             <<StripButtonEvent(note - ButtonSelect, "Select", on)>>)
    ELSE IF InStripRange(note, FaderTouch) THEN
      Result([st EXCEPT !.strips[note - FaderTouch + 1].fader.touch = on],
             <<StripButtonEvent(note - FaderTouch, "Touch", on)>>)
    ELSE IF note = 91 THEN
      Result([st EXCEPT !.transport.rewind = on], <<<<"handleTransportButton", "Rewind", on>>>>)
    ELSE IF note = 92 THEN
      Result([st EXCEPT !.transport.forward = on], <<<<"handleTransportButton", "Forward", on>>>>)
    ELSE IF note = 93 THEN
      Result([st EXCEPT !.transport.stop = on], <<<<"handleTransportButton", "Stop", on>>>>)
    ELSE IF note = 94 THEN
      Result([st EXCEPT !.transport.play = on], <<<<"handleTransportButton", "Play", on>>>>)
    ELSE IF note = 95 THEN
      Result([st EXCEPT !.transport.record = on], <<<<"handleTransportButton", "Record", on>>>>)
    ELSE IF note = 46 THEN Result(st, <<<<"handleBankButton", "Previous", on>>>>)
    ELSE IF note = 47 THEN Result(st, <<<<"handleBankButton", "Next", on>>>>)
    ELSE IF note = 48 THEN Result(st, <<<<"handleBankButton", "PreviousChannel", on>>>>)
    ELSE IF note = 50 THEN
      Result([st EXCEPT !.bank.flip = on], <<<<"handleBankButton", "Flip", on>>>>)
    ELSE IF note = 51 THEN
      Result([st EXCEPT !.bank.edit = on], <<<<"handleBankButton", "Edit", on>>>>)
    ELSE IF note = 70 THEN Result(st, <<<<"handleModifierButton", "Shift", on>>>>)
    ELSE IF note = 71 THEN Result(st, <<<<"handleModifierButton", "Option", on>>>>)
    ELSE IF note = 72 THEN Result(st, <<<<"handleModifierButton", "Control", on>>>>)
    ELSE IF note = 73 THEN Result(st, <<<<"handleModifierButton", "Alt", on>>>>)
    ELSE IF note = 96 THEN Result(st, <<<<"handleNavigationButton", "Up", on>>>>)
    ELSE IF note = 97 THEN Result(st, <<<<"handleNavigationButton", "Down", on>>>>)
    ELSE IF note = 98 THEN Result(st, <<<<"handleNavigationButton", "Left", on>>>>)
    ELSE IF note = 99 THEN Result(st, <<<<"handleNavigationButton", "Right", on>>>>)
    ELSE IF note = 100 THEN Result(st, <<<<"handleNavigationButton", "Zoom", on>>>>)
    ELSE IF note = 101 THEN Result(st, <<<<"handleNavigationButton", "Scrub", on>>>>)
    ELSE Result(st, <<>>)
  ELSE IF channel = 15 /\ note = ProtocolPing THEN
    Result([st EXCEPT !.active_usec = t], <<>>)
  ELSE Result(st, <<>>)

---------------------------------------------------------------------------
(* dispatchControlChange() *)

AllSoundOff == 120
AllNotesOff == 123

VPotEvent(strip, mode, center, fraction) ==
  <<"handleStripVPotDisplay", strip, mode, center, fraction>>

\* The mode and the value the LED ring byte decodes to.
VPotDecode(value) ==
  LET position == BitAnd(value, 15)
      mode == BitAnd(ShiftRight(value, 4), 3)
  IN  IF position = 0 THEN <<"Off", F32Zero>>
      ELSE IF mode = VPotSingle THEN <<"Bar", F32Div(position, 11)>>
      ELSE IF mode = VPotBoost THEN
        IF position < 6 THEN <<"Pan", F32Div(6 - position, -5)>>
        ELSE <<"Pan", F32Div(position - 6, 5)>>
      ELSE IF mode = VPotBar THEN <<"Bar", F32Div(position, 11)>>
      ELSE <<"Bar", F32Div(position, 6)>>

\* VPotCenter reading bit 5, the upper mode bit.
VPotCenter_Bit5(value) == Bit(value, 5)

\* const bool center = value & 0x40
VPotCenter(value) == Bit(value, 6)

\* The index of a time digit counted from the left.
TimeDigitIndex_LeftToRight(controller) == controller - TimeDigit

\* Mackie::Display::Time::Digit + 9 - controller
TimeDigitIndex(controller) == TimeDigit + 9 - controller

\* The case labels of reset() without AllNotesOff.
IsResetController_SoundOffOnly(controller) == controller = AllSoundOff

\* case V2MIDI::CC::AllSoundOff: case V2MIDI::CC::AllNotesOff:
IsResetController(controller) == controller = AllSoundOff \/ controller = AllNotesOff

dispatchControlChange(st, channel, controller, value) ==
  IF channel # 0 THEN Result(st, <<>>)
  ELSE IF TimeDigit <= controller /\ controller <= TimeDigit + 9 THEN
    Result([st EXCEPT !.timeDigits[TimeDigitIndex(controller) + 1] = value],
           <<<<"handleTime", st.timeType>>>>)
  ELSE IF InStripRange(controller, VPotLED) THEN
    LET strip == controller - VPotLED
        center == VPotCenter(value)
        d == VPotDecode(value)
    IN  Result([st EXCEPT !.strips[strip + 1].vpot.mode = d[1],
                          !.strips[strip + 1].vpot.center = center,
                          !.strips[strip + 1].vpot.value = d[2]],
               << <<"handleStripVPotDisplayRaw", strip, value>>,
                  VPotEvent(strip, d[1], center, d[2]) >>)
  ELSE IF IsResetController(controller) THEN
    Result(reset, <<>>)
  ELSE Result(st, <<>>)

---------------------------------------------------------------------------
(* dispatchAftertouchChannel() *)

\* MeterUpdate without _strips[index].meter.usec = micros().
MeterUpdate_NoStamp(m, value, t) ==
  [fraction |-> IF value <= 12 THEN F32Div(value, 12)
                ELSE IF value = 13 THEN F32One
                ELSE m.fraction,
   overload |-> IF value = 14 THEN TRUE
                ELSE IF value = 15 THEN FALSE
                ELSE m.overload,
   usec |-> m.usec]

\* MeterUpdate with a level message clearing the overload flag.
MeterUpdate_LevelClears(m, value, t) ==
  [fraction |-> IF value <= 12 THEN F32Div(value, 12)
                ELSE IF value = 13 THEN F32One
                ELSE m.fraction,
   overload |-> value = 14,
   usec |-> t]

\* The meter the low nibble leaves, and the overload notification it raises.
MeterUpdate(m, value, t) ==
  [fraction |-> IF value <= 12 THEN F32Div(value, 12)
                ELSE IF value = 13 THEN F32One
                ELSE m.fraction,
   overload |-> IF value = 14 THEN TRUE
                ELSE IF value = 15 THEN FALSE
                ELSE m.overload,
   usec |-> t]

dispatchAftertouchChannel(st, t, channel, pressure) ==
  IF channel # 0 THEN Result(st, <<>>)
  ELSE IF ShiftRight(pressure, 4) > 7 THEN Result(st, <<>>)
  ELSE
    LET index == ShiftRight(pressure, 4)
        value == BitAnd(pressure, 15)
        old == st.strips[index + 1].meter
        new == MeterUpdate(old, value, t)
        edge == IF value = 14 /\ ~old.overload
                  THEN <<<<"handleStripMeterOverload", index, TRUE>>>>
                ELSE IF value = 15 /\ old.overload
                  THEN <<<<"handleStripMeterOverload", index, FALSE>>>>
                ELSE <<>>
    IN  Result([st EXCEPT !.strips[index + 1].meter = new],
               edge \o <<<<"handleStripMeter", index, new.fraction, new.overload>>>>)

---------------------------------------------------------------------------
(* dispatchPitchBend() *)

PitchBendMax == 8176
PitchBendMin == -8192

\* The shifted value taken as it arrives.
PitchBendFraction_NoClamp(value) == F32Div(value + 8192, PitchBendMax + 8192)

\* The clamped and shifted value as a fraction of the fader's travel.
PitchBendFraction(value) ==
  LET clamped == IF value > PitchBendMax THEN PitchBendMax
                 ELSE IF value < PitchBendMin THEN PitchBendMin
                 ELSE value
  IN  F32Div(clamped + 8192, PitchBendMax + 8192)

dispatchPitchBend(st, channel, value) ==
  LET fraction == PitchBendFraction(value)
  IN  IF channel \in 0..7 THEN
        Result([st EXCEPT !.strips[channel + 1].fader.position = fraction],
               <<<<"handleStripFader", channel, fraction>>>>)
      ELSE IF channel = 8 THEN
        Result([st EXCEPT !.main.fader = fraction], <<<<"handleFader", fraction>>>>)
      ELSE Result(st, <<>>)

---------------------------------------------------------------------------
(* V2MIDI::Packet, the library's message: a status, a channel and two data  *)
(* bytes.  The setters the codec calls return the packet they filled.       *)

NULL == [type |-> "NULL", channel |-> 0, data1 |-> 0, data2 |-> 0]

Packet(type, channel, data1, data2) ==
  [type |-> type, channel |-> channel, data1 |-> data1, data2 |-> data2]

setNote(channel, note, velocity) == Packet("NoteOn", channel, note, velocity)
\* The release velocity is the library's default.
setNoteOff(channel, note) == Packet("NoteOff", channel, note, 64)
setControlChange(channel, controller, value) ==
  Packet("ControlChange", channel, controller, value)
setAftertouchChannel(channel, pressure) ==
  Packet("AftertouchChannel", channel, pressure, 0)
\* 14 bits, offset by 8192, least significant 7 bits first.
setPitchBend(channel, value) ==
  Packet("PitchBend", channel, (value + 8192) % 128, ((value + 8192) \div 128) % 128)
getPitchBend(p) == (p.data2 * 128 + p.data1) - 8192

---------------------------------------------------------------------------
(* dispatchPacket() *)

dispatchPacket(st, t, p) ==
  IF p.type = "NoteOn" THEN dispatchNote(st, t, p.channel, p.data1, p.data2)
  ELSE IF p.type = "NoteOff" THEN dispatchNote(st, t, p.channel, p.data1, 0)
  ELSE IF p.type = "ControlChange"
    THEN dispatchControlChange(st, p.channel, p.data1, p.data2)
  ELSE IF p.type = "AftertouchChannel"
    THEN dispatchAftertouchChannel(st, t, p.channel, p.data1)
  ELSE IF p.type = "PitchBend" THEN dispatchPitchBend(st, p.channel, getPitchBend(p))
  ELSE Result(st, <<>>)

---------------------------------------------------------------------------
(* dispatchSystemExclusive() *)

DisplayEvent(global, strip, row) == <<"handleStripDisplay", global, strip, row>>

\* The 7 characters of block (strip, row) of the display.
DisplayBlock(d, strip, row) == [c \in 1..7 |-> d[(56 * row) + (7 * strip) + c]]

\* DisplayGlobal reading row 0's separators for either row.
DisplayGlobal_FirstRow(d, row) ==
  \E i \in 0..7 : d[(i * 7) + 6 + 1] # Space

\* global[row]: one of the row's 8 separating characters is overwritten.
DisplayGlobal(d, row) ==
  \E i \in (8 * row)..(8 * row + 7) : d[(i * 7) + 6 + 1] # Space

\* What the 17th block (index 16: strip 0, row 2) can do.  It lies behind
\* _display.strip, behind _strips[0].display and behind global[]: the memcmp
\* reads, and the memcpy overwrites, the bytes of _strips[0].vpot.mode and
\* .center, and the notification carries a byte of the stack.
OutOfBounds ==
  {[differ |-> FALSE, global |-> FALSE, mode |-> "Off", center |-> FALSE]}
  \cup [differ : {TRUE}, global : BOOLEAN, mode : {"Off", "Pan", "Bar"},
        center : BOOLEAN]

\* One pass of the for statement over the blocks block..last.
RECURSIVE displayBlocks(_, _, _, _)
displayBlocks(r, block, last, oob) ==
  IF block > last THEN r
  ELSE IF block > 15 THEN
    IF oob.differ
    THEN displayBlocks(
           Emit([r EXCEPT !.st.strips[1].vpot.mode = oob.mode,
                          !.st.strips[1].vpot.center = oob.center],
                DisplayEvent(oob.global, block % 8, block \div 8)),
           block + 1, last, oob)
    ELSE displayBlocks(r, block + 1, last, oob)
  ELSE
    LET strip == block % 8
        row == block \div 8
        content == DisplayBlock(r.st.display, strip, row)
    IN  IF content = r.st.strips[strip + 1].display[row + 1]
        THEN displayBlocks(r, block + 1, last, oob)
        ELSE displayBlocks(
               Emit([r EXCEPT !.st.strips[strip + 1].display[row + 1] = content],
                    DisplayEvent(DisplayGlobal(r.st.display, row), strip, row)),
               block + 1, last, oob)

\* const uint8_t last = (start + l) / 7
DisplayLast(start, l) == (start + l) \div 7

\* dispatchSystemExclusive without the test of the device byte.
dispatchSystemExclusive_AnyDevice(st, buffer, oob) ==
  LET len == Len(buffer)
      start == buffer[7]
      l == len - 8
  IN  IF len < 8 THEN Result(st, <<>>)
      ELSE IF SubSeq(buffer, 2, 4) # VendorId THEN Result(st, <<>>)
      ELSE IF buffer[6] # TypeDisplay THEN Result(st, <<>>)
      ELSE IF start + l > DisplaySize THEN Result(st, <<>>)
      ELSE
        LET merged == [i \in 1..DisplaySize |->
                         IF start <= i - 1 /\ i - 1 < start + l
                         THEN buffer[i - 1 - start + 8] ELSE st.display[i]]
        IN  displayBlocks(Result([st EXCEPT !.display = merged], <<>>),
                          start \div 7, DisplayLast(start, l), oob)

\* buffer is the whole frame, F0 ... F7, as a sequence of bytes.
dispatchSystemExclusive(st, buffer, oob) ==
  LET len == Len(buffer)
      start == buffer[7]
      l == len - 8
  IN  IF len < 8 THEN Result(st, <<>>)
      ELSE IF SubSeq(buffer, 2, 4) # VendorId THEN Result(st, <<>>)
      ELSE IF buffer[5] # DeviceControl /\ buffer[5] # DeviceControlXT
        THEN Result(st, <<>>)
      ELSE IF buffer[6] # TypeDisplay THEN Result(st, <<>>)
      ELSE IF start + l > DisplaySize THEN Result(st, <<>>)
      ELSE
        LET merged == [i \in 1..DisplaySize |->
                         IF start <= i - 1 /\ i - 1 < start + l
                         THEN buffer[i - 1 - start + 8] ELSE st.display[i]]
        IN  displayBlocks(Result([st EXCEPT !.display = merged], <<>>),
                          start \div 7, DisplayLast(start, l), oob)

---------------------------------------------------------------------------
(* The encoders. *)

\* setStripMeter without the strip in the high nibble.
setStripMeter_NoStrip(strip, fraction) ==
  setAftertouchChannel(0, F32Trunc(F32MulInt(fraction, 12)))

\* const uint8_t value = fraction * 12.f
setStripMeter(strip, fraction) ==
  setAftertouchChannel(0, BitOr(strip * 16, F32Trunc(F32MulInt(fraction, 12))))

\* strip << 4 | (overload ? 14 : 15)
setStripMeterOverload_Parenthesised(strip, overload) ==
  setAftertouchChannel(0, BitOr(strip * 16, IF overload THEN 14 ELSE 15))

\* strip << 4 | overload ? 14 : 15, which C reads as
\* (strip << 4 | overload) ? 14 : 15
setStripMeterOverload(strip, overload) ==
  setAftertouchChannel(0, IF BitOr(strip * 16, IF overload THEN 1 ELSE 0) # 0
                          THEN 14 ELSE 15)

\* const int16_t range = (float)(8176 + 8192) * fraction
FaderRange(fraction) == F32Trunc(F32MulInt(fraction, PitchBendMax + 8192))

setStripFader(strip, fraction) == setPitchBend(strip, FaderRange(fraction) - 8192)
setFader(fraction) == setPitchBend(8, FaderRange(fraction) - 8192)

setStripVPotDisplay(strip, value) == setControlChange(0, VPotLED + strip, value)

\* F0, vendor, device, type, offset, text, F7, for a text of at most 7
\* characters.
setStripText(strip, row, text) ==
  <<240>> \o VendorId \o <<DeviceControl, TypeDisplay, (56 * row) + (7 * strip)>>
  \o text \o [i \in 1..(7 - Len(text)) |-> Space] \o <<247>>

\* StripNoteBase without the fader touch notes.
StripNoteBase_NoTouch(note) ==
  IF InStripRange(note, VPotPush) THEN VPotPush
  ELSE IF InStripRange(note, ButtonArm) THEN ButtonArm
  ELSE IF InStripRange(note, ButtonSolo) THEN ButtonSolo
  ELSE IF InStripRange(note, ButtonMute) THEN ButtonMute
  ELSE IF InStripRange(note, ButtonSelect) THEN ButtonSelect
  ELSE -1

\* The base of the note range a channel-0 strip note lies in, -1 for none.
StripNoteBase(note) ==
  IF InStripRange(note, VPotPush) THEN VPotPush
  ELSE IF InStripRange(note, ButtonArm) THEN ButtonArm
  ELSE IF InStripRange(note, ButtonSolo) THEN ButtonSolo
  ELSE IF InStripRange(note, ButtonMute) THEN ButtonMute
  ELSE IF InStripRange(note, ButtonSelect) THEN ButtonSelect
  ELSE IF InStripRange(note, FaderTouch) THEN FaderTouch
  ELSE -1

setStripIndex(p, strip) ==
  IF p.type = "NoteOn" THEN
    IF p.channel # 0 THEN NULL
    ELSE IF StripNoteBase(p.data1) # -1
      THEN setNote(0, StripNoteBase(p.data1) + strip, p.data2)
    ELSE NULL
  ELSE IF p.type = "NoteOff" THEN
    IF p.channel # 0 THEN NULL
    ELSE IF StripNoteBase(p.data1) # -1
      THEN setNoteOff(0, StripNoteBase(p.data1) + strip)
    ELSE NULL
  ELSE IF p.type = "ControlChange" THEN
    IF p.channel # 0 THEN NULL
    ELSE IF InStripRange(p.data1, VPotLED)
      THEN setControlChange(0, VPotLED + strip, p.data2)
    ELSE NULL
  ELSE IF p.type = "AftertouchChannel" THEN
    IF p.channel # 0 THEN NULL
    ELSE IF ShiftRight(p.data1, 4) > 7 THEN NULL
    ELSE setAftertouchChannel(0, BitOr(strip * 16, BitAnd(p.data1, 15)))
  ELSE IF p.type = "PitchBend" THEN
    IF p.channel \in 0..7 THEN setPitchBend(strip, getPitchBend(p))
    ELSE NULL
  ELSE NULL

---------------------------------------------------------------------------
(* The state after begin(), and a call's effect on the variables. *)

InitCodec ==
  /\ active_usec = reset.active_usec
  /\ display = reset.display
  /\ timeType = reset.timeType
  /\ timeDigits = reset.timeDigits
  /\ strips = reset.strips
  /\ main = reset.main
  /\ bank = reset.bank
  /\ transport = reset.transport
  /\ navigation = reset.navigation

\* The 16 blocks of the display reset() leaves.
ShownReset == [b \in 1..16 |-> [c \in 1..7 |-> Space]]

InitHistory ==
  /\ hbPending = FALSE
  /\ hbTime = U32Zero
  /\ meterTime = [s \in 1..8 |-> U32Zero]
  /\ lastNote = <<>>
  /\ shown = ShownReset

InitCall ==
  /\ events = <<>>
  /\ op = <<"begin">>
  /\ nops = 0

Apply(r) ==
  /\ active_usec' = r.st.active_usec
  /\ display' = r.st.display
  /\ timeType' = r.st.timeType
  /\ timeDigits' = r.st.timeDigits
  /\ strips' = r.st.strips
  /\ main' = r.st.main
  /\ bank' = r.st.bank
  /\ transport' = r.st.transport
  /\ navigation' = r.st.navigation
  /\ events' = r.ev

\* The handle...() calls named cb among a call's notifications.
Calls(ev, cb) == SelectSeq(ev, LAMBDA e : e[1] = cb)

---------------------------------------------------------------------------
(* The heartbeat: time passes, packets arrive, the sketch calls loop().     *)

\* micros() at begin(): early after power-up and shortly before the counter
\* wraps.
InitTimes == {<<0, 1000>>, <<65459, 46272>>, <<65535, 65535>>}
TickSteps == {1, 5000000}

\* Channel 15, note 127, as TotalMix (velocity 90) and others send it.
PingPackets == {setNote(15, ProtocolPing, 90), setNote(15, ProtocolPing, 127),
                setNoteOff(15, ProtocolPing)}
\* Notes that are no heartbeat.
IdlePackets == {setNote(15, 126, 127), setNote(14, ProtocolPing, 127),
                setNote(0, ProtocolPing, 127)}
ResetPackets == {setControlChange(0, AllSoundOff, 0), setControlChange(0, AllNotesOff, 0)}

HbInit ==
  /\ now \in InitTimes
  /\ InitCodec /\ InitHistory /\ InitCall
  /\ packet = NULL
  /\ input = <<>>

Tick ==
  \E d \in TickSteps :
    /\ nops < MaxTicks
    /\ now' = U32Add(now, d)
    /\ nops' = nops + 1
    /\ op' = <<"tick", d>>
    /\ events' = <<>>
    /\ UNCHANGED <<codec, history, packet, input>>

Ping ==
  \E p \in PingPackets :
    /\ Apply(dispatchPacket(State, now, p))
    /\ op' = <<"dispatchPacket", p>>
    /\ hbPending' = TRUE
    /\ hbTime' = now
    /\ UNCHANGED <<now, nops, meterTime, lastNote, shown, packet, input>>

Idle ==
  \E p \in IdlePackets :
    /\ Apply(dispatchPacket(State, now, p))
    /\ op' = <<"dispatchPacket", p>>
    /\ UNCHANGED <<now, nops, history, packet, input>>

Loop ==
  /\ Apply(loop(State, now))
  /\ op' = <<"loop">>
  /\ hbPending' = (hbPending /\ Calls(events', "handleTimeout") = <<>>)
  /\ UNCHANGED <<now, nops, hbTime, meterTime, lastNote, shown, packet, input>>

ResetCC ==
  \E p \in ResetPackets :
    /\ Apply(dispatchPacket(State, now, p))
    /\ op' = <<"dispatchPacket", p>>
    /\ hbPending' = FALSE
    /\ shown' = ShownReset
    /\ UNCHANGED <<now, nops, hbTime, meterTime, lastNote, packet, input>>

HbNext == Tick \/ Ping \/ Idle \/ Loop \/ ResetCC

SpecHeartbeat == HbInit /\ [][HbNext]_vars

\* More than the grace window has passed since the most recent heartbeat.
HbLapsed == hbPending /\ U32Gt(U32Sub(now, hbTime), GraceUsec)

\* C1: every loop() that finds a heartbeat lapsed by more than 5 seconds
\* calls handleTimeout exactly once, and loop() calls it in no other case
\* (no heartbeat received yet, or none since the last timeout); no other
\* operation calls it.
C1_TimeoutExactlyOnce ==
  [][IF op' = <<"loop">> /\ HbLapsed
     THEN Calls(events', "handleTimeout") = <<<<"handleTimeout">>>>
     ELSE Calls(events', "handleTimeout") = <<>>]_vars

---------------------------------------------------------------------------
(* The meters: time passes, meter messages arrive, the sketch calls loop(). *)

MeterInitTimes == {<<0, 1000>>, <<65535, 65535>>}
MeterTickSteps == {1, 999999}
MeterStrips == {0, 7}
\* Low nibbles: half scale, overload set and overload clear.
MeterValues == {6, 14, 15}

MeterInit ==
  /\ now \in MeterInitTimes
  /\ InitCodec /\ InitHistory /\ InitCall
  /\ packet = NULL
  /\ input = <<>>

MeterTick ==
  \E d \in MeterTickSteps :
    /\ nops < MaxMeterTicks
    /\ now' = U32Add(now, d)
    /\ nops' = nops + 1
    /\ op' = <<"tick", d>>
    /\ events' = <<>>
    /\ UNCHANGED <<codec, history, packet, input>>

Meter ==
  \E s \in MeterStrips, v \in MeterValues :
    LET p == setAftertouchChannel(0, BitOr(s * 16, v))
    IN  /\ Apply(dispatchPacket(State, now, p))
        /\ op' = <<"dispatchPacket", p>>
        /\ meterTime' = [meterTime EXCEPT ![s + 1] = now]
        /\ UNCHANGED <<now, nops, hbPending, hbTime, lastNote, shown, packet, input>>

MeterNext == MeterTick \/ Meter \/ Loop

SpecMeterDecay == MeterInit /\ [][MeterNext]_vars

\* The handleStripMeter calls for strip i among a call's notifications.
MeterCalls(ev, i) == SelectSeq(ev, LAMBDA e : e[1] = "handleStripMeter" /\ e[2] = i)

\* What loop() does to every strip when the meters lapse under the test
\* lapsed(elapsed): a lapsed nonzero meter is zeroed and notified once, any
\* other meter is left alone and not notified.
MeterDecayWhen(lapsed(_)) ==
  op' = <<"loop">> =>
    \A i \in Strips :
      LET m == strips[i + 1].meter
      IN  IF m.fraction # F32Zero /\ lapsed(U32Sub(now, meterTime[i + 1]))
          THEN /\ strips'[i + 1].meter.fraction = F32Zero
               /\ strips'[i + 1].meter.overload = FALSE
               /\ MeterCalls(events', i) = <<<<"handleStripMeter", i, F32Zero, FALSE>>>>
          ELSE /\ strips'[i + 1].meter = m
               /\ MeterCalls(events', i) = <<>>

\* C2 as claimed: loop() zeroes a nonzero meter when more than 1 second has
\* passed since the strip's last meter message, and leaves it alone up to
\* and including exactly 1 second.
C2_DecayAfterOneSecond ==
  [][MeterDecayWhen(LAMBDA elapsed : U32Gt(elapsed, DecayUsec))]_vars

\* C2 as amended: loop() zeroes a nonzero meter when at least 1 second has
\* passed since the strip's last meter message (exactly 1 second included),
\* emitting handleStripMeter(strip, 0, false) once, and leaves the meter
\* alone, without a notification, when less than 1 second has passed.
C2_DecayFromOneSecond ==
  [][MeterDecayWhen(LAMBDA elapsed : ~U32Lt(elapsed, DecayUsec))]_vars

\* loop() has zeroed a meter exactly 1 second after its last message, and
\* has left another strip's younger meter alone.
C2_Witness ==
  /\ op = <<"loop">>
  /\ \E i, j \in Strips :
       /\ U32Sub(now, meterTime[i + 1]) = U32(DecayUsec)
       /\ MeterCalls(events, i) = <<<<"handleStripMeter", i, F32Zero, FALSE>>>>
       /\ strips[j + 1].meter.fraction # F32Zero
       /\ MeterCalls(events, j) = <<>>

---------------------------------------------------------------------------
(* The display: the host sends display frames, and resets the surface.      *)

\* F0, vendor, device, type, offset, text, F7.
DisplayFrame(device, start, text) ==
  <<240>> \o VendorId \o <<device, TypeDisplay, start>> \o text \o <<247>>

\* "MASTER" in ASCII.
TextMaster == <<77, 65, 83, 84, 69, 82>>

\* setStripText(buffer, 0, 0, "MASTER"): offset 0, "MASTER ".
MasterFrame == setStripText(0, 0, TextMaster)

\* Frames dispatchSystemExclusive() takes apart.
AcceptedFrames ==
  { MasterFrame,
    DisplayFrame(DeviceControl, 0, TextMaster),
    \* "MAS" and "TER ": two frames that together write "MASTER ".
    DisplayFrame(DeviceControl, 0, <<77, 65, 83>>),
    DisplayFrame(DeviceControlXT, 3, <<84, 69, 82, 32>>),
    \* "|" and " " in the separating column of strip 0, row 0.
    DisplayFrame(DeviceControl, 6, <<124>>),
    DisplayFrame(DeviceControl, 6, <<32>>),
    \* "-10.0  " for strip 7, row 1: the frame ends with the display.
    setStripText(7, 1, <<45, 49, 48, 46, 48>>),
    \* "ab cd" from the end of row 0 into row 1.
    DisplayFrame(DeviceControl, 54, <<97, 98, 32, 99, 100>>),
    \* 7 NUL characters for strip 1, row 0.
    DisplayFrame(DeviceControl, 7, <<0, 0, 0, 0, 0, 0, 0>>),
    \* No text.
    DisplayFrame(DeviceControl, 0, <<>>) }

\* Frames it drops: text behind the display, another device, another
\* vendor, another type, and a frame cut short.
DroppedFrames ==
  { DisplayFrame(DeviceControl, 106, TextMaster \o <<32>>),
    DisplayFrame(22, 0, TextMaster \o <<32>>),
    <<240, 0, 1, 102, DeviceControl, TypeDisplay, 0>> \o TextMaster \o <<32, 247>>,
    <<240>> \o VendorId \o <<DeviceControl, 19, 0, 247>>,
    <<240>> \o VendorId \o <<DeviceControl, TypeDisplay, 247>> }

DisplayFrames == AcceptedFrames \cup DroppedFrames

\* The handleStripDisplay calls for block (strip, row) among a call's
\* notifications.
DisplayCalls(ev, strip, row) ==
  SelectSeq(ev, LAMBDA e : e[1] = "handleStripDisplay" /\ e[3] = strip /\ e[4] = row)

DisplayInit ==
  /\ now = U32(1000)
  /\ InitCodec /\ InitHistory /\ InitCall
  /\ packet = NULL
  /\ input = <<>>

Frame ==
  \E buffer \in DisplayFrames, oob \in OutOfBounds :
    /\ nops < MaxFrames
    /\ Apply(dispatchSystemExclusive(State, buffer, oob))
    /\ op' = <<"dispatchSystemExclusive", buffer>>
    /\ nops' = nops + 1
    /\ shown' = [b \in 1..16 |->
                   IF DisplayCalls(events', (b - 1) % 8, (b - 1) \div 8) # <<>>
                   THEN DisplayBlock(display', (b - 1) % 8, (b - 1) \div 8)
                   ELSE shown[b]]
    /\ UNCHANGED <<now, hbPending, hbTime, meterTime, lastNote, packet, input>>

DisplayNext == Frame \/ ResetCC

SpecDisplay == DisplayInit /\ [][DisplayNext]_vars

\* The step is a dispatchSystemExclusive() call.
IsFrame(o) == o[1] = "dispatchSystemExclusive"

\* The blocks a frame's text covers: those holding one of the characters
\* start .. start + l - 1.
WrittenBlocks(buffer) ==
  {b \in 0..15 : \E i \in 0..(Len(buffer) - 9) : (buffer[7] + i) \div 7 = b}

\* C3: on a codec as reset() leaves it, the frame with offset 0 and the text
\* "MASTER " makes getStripDisplay(0, 0) return "MASTER" and calls
\* handleStripDisplay exactly once, with (global = false, strip 0, row 0),
\* and for no other strip or row.
C3_MasterFrameNotifiesOnce ==
  [][(State = reset /\ op' = <<"dispatchSystemExclusive", MasterFrame>>) =>
       /\ getStripDisplay(State', 0, 0) = TextMaster
       /\ events' = <<DisplayEvent(FALSE, 0, 0)>>]_vars

\* C4: a frame calls handleStripDisplay for block (strip, row) exactly once
\* if the block lies in the range the frame writes and its 7 characters
\* after the write differ from the block's text at its previous
\* notification, and not at all otherwise.
C4_NotifiesChangedBlocksOnly ==
  [][(IsFrame(op') /\ op'[2] \in AcceptedFrames) =>
       \A strip \in Strips, row \in Rows :
         Len(DisplayCalls(events', strip, row)) =
           IF /\ (8 * row) + strip \in WrittenBlocks(op'[2])
              /\ DisplayBlock(display', strip, row) # shown[(8 * row) + strip + 1]
           THEN 1 ELSE 0]_vars

\* C5: every handleStripDisplay call of a frame for row 0 or 1 carries
\* global = true if, in the display as the frame leaves it, the last
\* character of one of the row's 8 blocks is not a space, and global = false
\* if all 8 are spaces, whatever earlier frames reported.
C5_GlobalFlagFromSeparators ==
  [][IsFrame(op') =>
       \A k \in 1..Len(events') :
         LET e == events'[k]
         IN  (e[1] = "handleStripDisplay" /\ e[4] \in Rows) =>
               e[2] = (\E strip \in Strips :
                         display'[(56 * e[4]) + (7 * strip) + 7] # Space)]_vars

\* One frame has notified a block of row 0 as global and a block of row 1
\* as not global.
C5_Witness ==
  /\ IsFrame(op)
  /\ events = <<DisplayEvent(TRUE, 7, 0), DisplayEvent(FALSE, 0, 1)>>
  /\ display[56] # Space
  /\ \A strip \in Strips : display[56 + (7 * strip) + 7] = Space

---------------------------------------------------------------------------
(* The strip buttons: the host sends notes on channel 0.                    *)

\* The first note of each class of strip button, and the class's name.
StripBases == {VPotPush, ButtonArm, ButtonSolo, ButtonMute, ButtonSelect, FaderTouch}

StripButtonOf(base) ==
  CASE base = VPotPush -> "VPot"
    [] base = ButtonArm -> "Arm"
    [] base = ButtonSolo -> "Solo"
    [] base = ButtonMute -> "Mute"
    [] base = ButtonSelect -> "Select"
    [] base = FaderTouch -> "Touch"

\* The latch _strips[strip] keeps for a class.
Latch(s, base, strip) ==
  CASE base = VPotPush -> s[strip + 1].vpot.click
    [] base = ButtonArm -> s[strip + 1].button.arm
    [] base = ButtonSolo -> s[strip + 1].button.solo
    [] base = ButtonMute -> s[strip + 1].button.mute
    [] base = ButtonSelect -> s[strip + 1].button.select
    [] base = FaderTouch -> s[strip + 1].fader.touch

\* _strips with that latch set to on, everything else as it was.
WithLatch(s, base, strip, on) ==
  CASE base = VPotPush -> [s EXCEPT ![strip + 1].vpot.click = on]
    [] base = ButtonArm -> [s EXCEPT ![strip + 1].button.arm = on]
    [] base = ButtonSolo -> [s EXCEPT ![strip + 1].button.solo = on]
    [] base = ButtonMute -> [s EXCEPT ![strip + 1].button.mute = on]
    [] base = ButtonSelect -> [s EXCEPT ![strip + 1].button.select = on]
    [] base = FaderTouch -> [s EXCEPT ![strip + 1].fader.touch = on]

\* The strips the notes address, and the velocities a host sends: released,
\* soft and pressed.
NoteStrips == {0, 3, 7}
NoteVelocities == {0, 1, 127}

\* Notes on channel 0 that are no strip button (Play, F1), and a strip
\* button's note on another channel.
OtherPackets == {setNote(0, 94, 127), setNote(0, 54, 127), setNote(1, ButtonMute, 127)}

NotesInit ==
  /\ now = U32(1000)
  /\ InitCodec /\ InitHistory /\ InitCall
  /\ packet = NULL
  /\ input = <<>>

\* The velocity dispatchPacket() hands to dispatchNote().
NoteVelocity(p) == IF p.type = "NoteOff" THEN 0 ELSE p.data2

StripNote ==
  \E base \in StripBases, strip \in NoteStrips :
    \E p \in {setNote(0, base + strip, v) : v \in NoteVelocities}
             \cup {setNoteOff(0, base + strip)} :
      /\ nops < MaxNotes
      /\ Apply(dispatchPacket(State, now, p))
      /\ op' = <<"dispatchPacket", p>>
      /\ nops' = nops + 1
      /\ lastNote' = [n \in DOMAIN lastNote \cup {p.data1} |->
                        IF n = p.data1 THEN NoteVelocity(p) ELSE lastNote[n]]
      /\ UNCHANGED <<now, hbPending, hbTime, meterTime, shown, packet, input>>

OtherNote ==
  \E p \in OtherPackets :
    /\ Apply(dispatchPacket(State, now, p))
    /\ op' = <<"dispatchPacket", p>>
    /\ UNCHANGED <<now, nops, history, packet, input>>

NotesNext == StripNote \/ OtherNote

SpecNotes == NotesInit /\ [][NotesNext]_vars

\* The step dispatches a note-on or note-off on channel 0 in a strip button's
\* range.
IsStripNote(o) ==
  /\ o[1] = "dispatchPacket"
  /\ o[2].type \in {"NoteOn", "NoteOff"}
  /\ o[2].channel = 0
  /\ \E base \in StripBases : o[2].data1 \in base..(base + 7)

\* C6: a note-on or note-off on channel 0 at base + s of a strip button class
\* sets exactly strip s's latch of that class to (velocity = 127), a
\* note-off counting as velocity 0, and calls handleStripButton(s, class,
\* velocity = 127) once and nothing else; after any sequence of such
\* messages every latch addressed so far holds the value of the last message
\* for its address.
C6_StripButtonDecode ==
  [][/\ IsStripNote(op') =>
          \E base \in StripBases :
            LET s == op'[2].data1 - base
                on == NoteVelocity(op'[2]) = 127
            IN  /\ s \in Strips
                /\ strips' = WithLatch(strips, base, s, on)
                /\ events' = <<<<"handleStripButton", s, StripButtonOf(base), on>>>>
                /\ UNCHANGED <<active_usec, display, timeType, timeDigits, main,
                               bank, transport, navigation>>
     /\ \A n \in DOMAIN lastNote' :
          \E base \in StripBases :
            /\ n \in base..(base + 7)
            /\ Latch(strips', base, n - base) = (lastNote'[n] = 127)]_vars

\* After a note-on with velocity 127 for strip 3's Mute, a note-off for
\* strip 7's fader touch has been decoded: the first latch stays pressed.
C6_Witness ==
  /\ op = <<"dispatchPacket", setNoteOff(0, FaderTouch + 7)>>
  /\ events = <<<<"handleStripButton", 7, "Touch", FALSE>>>>
  /\ lastNote = (ButtonMute + 3 :> 127) @@ (FaderTouch + 7 :> 0)
  /\ ~strips[8].fader.touch
  /\ strips[4].button.mute

---------------------------------------------------------------------------
(* setStripIndex(): the caller holds a packet and moves it to a strip.      *)

\* Remaps per behaviour of the strip-index specification.
MaxRemaps == 2

\* Packets setStripIndex() moves: strip notes, LED rings, meters, faders.
IndexedPackets ==
  {setNote(0, base + s, v) : base \in StripBases, s \in {0, 5}, v \in {0, 127}}
  \cup {setNoteOff(0, base + s) : base \in StripBases, s \in {0, 5}}
  \cup {setControlChange(0, VPotLED + s, v) : s \in {0, 7}, v \in {0, 91}}
  \cup {setAftertouchChannel(0, BitOr(s * 16, v)) : s \in {0, 7}, v \in {0, 12, 14}}
  \cup {setPitchBend(c, v) : c \in {0, 7}, v \in {-8192, 0, 8191}}

\* Packets it refuses: Play, F1, a strip note on channel 1, the controllers
\* next to the LED rings, a time digit, a controller and a meter on channel
\* 1, a meter for strip 8, the main fader, a fader on channel 9, and a
\* program change.
OtherIndexPackets ==
  {setNote(0, 94, 127), setNote(0, 54, 127), setNoteOff(0, 94),
   setNote(1, ButtonMute, 127), setNoteOff(1, ButtonMute),
   setControlChange(0, VPotLED - 1, 5), setControlChange(0, VPotLED + 8, 5),
   setControlChange(0, TimeDigit, 48), setControlChange(1, VPotLED, 5),
   setAftertouchChannel(1, 6), setAftertouchChannel(0, 128 + 6),
   setPitchBend(8, 0), setPitchBend(9, 0),
   Packet("ProgramChange", 0, 1, 0)}

IndexInit ==
  /\ now = U32(1000)
  /\ InitCodec /\ InitHistory /\ InitCall
  /\ packet \in IndexedPackets \cup OtherIndexPackets
  /\ input = <<>>

\* setStripIndex(&packet, strip): input keeps the strip and the pointer
\* returned; a refused packet is left as it was.
StripIndex ==
  \E strip \in Strips :
    /\ nops < MaxRemaps
    /\ input' = <<strip, setStripIndex(packet, strip)>>
    /\ packet' = IF setStripIndex(packet, strip) = NULL THEN packet
                 ELSE setStripIndex(packet, strip)
    /\ op' = <<"setStripIndex", packet, strip>>
    /\ nops' = nops + 1
    /\ events' = <<>>
    /\ UNCHANGED <<now, codec, history>>

IndexNext == StripIndex

SpecIndex == IndexInit /\ [][IndexNext]_vars

\* The range a packet addresses: its kind and, for a note, its class.
SlotRange(p) ==
  IF p.type \in {"NoteOn", "NoteOff"} /\ p.channel = 0
       /\ \E base \in StripBases : p.data1 \in base..(base + 7)
    THEN <<p.type, CHOOSE base \in StripBases : p.data1 \in base..(base + 7)>>
  ELSE IF p.type = "ControlChange" /\ p.channel = 0 /\ p.data1 \in 48..55
    THEN <<"ControlChange", 48>>
  ELSE IF p.type = "AftertouchChannel" /\ p.channel = 0 /\ p.data1 \in 0..127
    THEN <<"AftertouchChannel", 0>>
  ELSE IF p.type = "PitchBend" /\ p.channel \in 0..7
    THEN <<"PitchBend", 0>>
  ELSE <<"none", 0>>

\* The slot 0..7 of its range a supported packet addresses.
Slot(p) ==
  IF p.type \in {"NoteOn", "NoteOff"} THEN p.data1 - SlotRange(p)[2]
  ELSE IF p.type = "ControlChange" THEN p.data1 - 48
  ELSE IF p.type = "AftertouchChannel" THEN p.data1 \div 16
  ELSE p.channel

\* C7: for a supported packet and a strip t, setStripIndex returns a packet
\* of the same range in slot t, which a second call with t leaves as it is,
\* and which differs from the result for every other strip; for every other
\* packet it returns NULL.
C7_StripIndexRemaps ==
  [][op'[1] = "setStripIndex" =>
       LET p == op'[2]
           t == op'[3]
           r == input'[2]
       IN  IF SlotRange(p)[1] # "none"
           THEN /\ r # NULL
                /\ SlotRange(r) = SlotRange(p)
                /\ Slot(r) = t
                /\ setStripIndex(r, t) = r
                /\ \A u \in Strips \ {t} : setStripIndex(p, u) # r
                /\ {Slot(setStripIndex(p, u)) : u \in Strips} = Strips
           ELSE r = NULL]_vars

\* A mute note-on for strip 5 was moved to strip 2, and moved to strip 2
\* again.
C7_Witness ==
  /\ op = <<"setStripIndex", setNote(0, ButtonMute + 2, 127), 2>>
  /\ input = <<2, setNote(0, ButtonMute + 2, 127)>>
  /\ packet = setNote(0, ButtonMute + 2, 127)
  /\ nops = 2

---------------------------------------------------------------------------
(* The faders: the caller encodes a position, the codec decodes the packet. *)

\* Strips 0 and 7, and 8 for the main fader.
FaderStrips == {0, 7, 8}

\* The positions n / 2^FracBits of [0, 1]; each is a float.
FaderSteps == 0..Pow2(FracBits)
FaderFraction(n) == F32Div(n, Pow2(FracBits))

FaderInit ==
  /\ now = U32(1000)
  /\ InitCodec /\ InitHistory /\ InitCall
  /\ packet = NULL
  /\ input \in {<<strip, n>> : strip \in FaderStrips, n \in FaderSteps}

\* setStripFader(&packet, strip, fraction), setFader(&packet, fraction)
EncodeFader ==
  /\ packet = NULL
  /\ packet' = IF input[1] = 8 THEN setFader(FaderFraction(input[2]))
               ELSE setStripFader(input[1], FaderFraction(input[2]))
  /\ op' = <<"setStripFader", input[1]>>
  /\ events' = <<>>
  /\ UNCHANGED <<now, codec, nops, history, input>>

\* dispatchPacket(&packet)
DispatchFader ==
  /\ packet # NULL
  /\ op[1] = "setStripFader"
  /\ Apply(dispatchPacket(State, now, packet))
  /\ op' = <<"dispatchPacket", packet>>
  /\ UNCHANGED <<now, nops, history, packet, input>>

FaderNext == EncodeFader \/ DispatchFader

SpecFader == FaderInit /\ [][FaderNext]_vars

\* |f - n / 2^FracBits| <= 1 / 16384
FaderWithinStep(f, n) ==
  /\ F32FloorScaled(f, FracBits) >= n - Pow2(FracBits - 14)
  /\ F32CeilScaled(f, FracBits) <= n + Pow2(FracBits - 14)

\* C8: the position dispatchPitchBend stores and reports for the packet
\* that setStripFader (setFader for the main fader) made of a fraction in
\* [0, 1] differs from the fraction by at most 1/16384.
C8_FaderRoundTrip ==
  op[1] = "dispatchPacket" =>
    LET position == IF input[1] = 8 THEN main.fader
                    ELSE strips[input[1] + 1].fader.position
    IN  /\ FaderWithinStep(position, input[2])
        /\ events = <<IF input[1] = 8 THEN <<"handleFader", position>>
                      ELSE <<"handleStripFader", input[1], position>>>>

---------------------------------------------------------------------------
(* The meter codec: the caller encodes a level, the codec decodes it; the   *)
(* host also sends TotalMix's level 13.                                     *)

MeterLevels == 0..12

MeterCodecInit ==
  /\ now = U32(1000)
  /\ InitCodec /\ InitHistory /\ InitCall
  /\ packet = NULL
  /\ input \in {<<strip, level>> : strip \in Strips, level \in MeterLevels}

\* setStripMeter(&packet, strip, level / 12.f)
EncodeMeter ==
  /\ packet = NULL
  /\ packet' = setStripMeter(input[1], F32Div(input[2], 12))
  /\ op' = <<"setStripMeter", input[1], input[2]>>
  /\ events' = <<>>
  /\ UNCHANGED <<now, codec, nops, history, input>>

\* dispatchPacket(&packet)
DispatchMeter ==
  /\ packet # NULL
  /\ op[1] = "setStripMeter"
  /\ Apply(dispatchPacket(State, now, packet))
  /\ op' = <<"dispatchPacket", packet>>
  /\ meterTime' = [meterTime EXCEPT ![(ShiftRight(packet.data1, 4) % 8) + 1] = now]
  /\ UNCHANGED <<now, nops, hbPending, hbTime, lastNote, shown, packet, input>>

\* A meter message with low nibble 13 for the strip, on a codec that has
\* decoded nothing yet.
DispatchMeterFull ==
  /\ packet = NULL
  /\ op = <<"begin">>
  /\ Apply(dispatchPacket(State, now, setAftertouchChannel(0, BitOr(input[1] * 16, 13))))
  /\ op' = <<"dispatchPacket", setAftertouchChannel(0, BitOr(input[1] * 16, 13))>>
  /\ meterTime' = [meterTime EXCEPT ![input[1] + 1] = now]
  /\ UNCHANGED <<now, nops, hbPending, hbTime, lastNote, shown, packet, input>>

MeterCodecNext == EncodeMeter \/ DispatchMeter \/ DispatchMeterFull

SpecMeterCodec == MeterCodecInit /\ [][MeterCodecNext]_vars

\* C9: setStripMeter(strip, level / 12) for a level 0..12 makes the
\* channel-0 pressure message with the strip in the high and the level in
\* the low nibble, and dispatching it sets the strip's meter fraction to
\* exactly level / 12 (as a float) and reports it; a channel-0 meter message
\* with low nibble 13 sets the fraction to exactly 1.
C9_MeterRoundTrip ==
  /\ (op[1] = "dispatchPacket" /\ packet # NULL) =>
       /\ packet = Packet("AftertouchChannel", 0, (16 * input[1]) + input[2], 0)
       /\ strips[input[1] + 1].meter.fraction = F32Div(input[2], 12)
       /\ events = <<<<"handleStripMeter", input[1], F32Div(input[2], 12), FALSE>>>>
       /\ \A s \in Strips \ {input[1]} : strips[s + 1].meter = StripZero.meter
  /\ (op[1] = "dispatchPacket" /\ packet = NULL) =>
       /\ op[2].data1 % 16 = 13
       /\ strips[input[1] + 1].meter.fraction = F32One
       /\ events = <<<<"handleStripMeter", input[1], F32One, FALSE>>>>

\* Level 7 for strip 5 has been encoded and decoded.
C9_Witness ==
  /\ op = <<"dispatchPacket", Packet("AftertouchChannel", 0, 87, 0)>>
  /\ input = <<5, 7>>
  /\ strips[6].meter.fraction = F32Div(7, 12)
  /\ strips[6].meter.fraction # F32Zero

---------------------------------------------------------------------------
(* The LED rings: the caller encodes a ring byte, the codec decodes it.     *)

VPotValues == 0..127

VPotInit ==
  /\ now = U32(1000)
  /\ InitCodec /\ InitHistory /\ InitCall
  /\ packet = NULL
  /\ input \in {<<strip, value>> : strip \in Strips, value \in VPotValues}

\* setStripVPotDisplay(&packet, strip, value)
EncodeVPot ==
  /\ packet = NULL
  /\ packet' = setStripVPotDisplay(input[1], input[2])
  /\ op' = <<"setStripVPotDisplay", input[1], input[2]>>
  /\ events' = <<>>
  /\ UNCHANGED <<now, codec, nops, history, input>>

\* dispatchPacket(&packet)
DispatchVPot ==
  /\ packet # NULL
  /\ op[1] = "setStripVPotDisplay"
  /\ Apply(dispatchPacket(State, now, packet))
  /\ op' = <<"dispatchPacket", packet>>
  /\ UNCHANGED <<now, nops, history, packet, input>>

VPotNext == EncodeVPot \/ DispatchVPot

SpecVPot == VPotInit /\ [][VPotNext]_vars

\* What a ring byte shows: the mode and the value.
VPotShown(value) ==
  LET position == value % 16
      mode == (value \div 16) % 4
  IN  IF position = 0 THEN <<"Off", F32Zero>>
      ELSE IF mode = 0 THEN <<"Bar", F32Div(position, 11)>>
      ELSE IF mode = 1 THEN <<"Pan", F32Div(position - 6, 5)>>
      ELSE IF mode = 2 THEN <<"Bar", F32Div(position, 11)>>
      ELSE <<"Bar", F32Div(position, 6)>>

\* C10: a channel-0 controller 48 + s with any value byte stores and reports
\* center = bit 6 of the byte; with position (bits 0..3) 0 the mode is Off
\* and the value 0 whatever the mode bits; otherwise Single, Bar and Spread
\* give mode Bar with position / 11, position / 11 and position / 6, and
\* Boost gives mode Pan with (position - 6) / 5.
C10_VPotDecode ==
  op[1] = "dispatchPacket" =>
    LET s == input[1]
        value == input[2]
        center == (value \div 64) % 2 = 1
        d == VPotShown(value)
    IN  /\ packet = Packet("ControlChange", 0, 48 + s, value)
        /\ strips[s + 1].vpot.mode = d[1]
        /\ strips[s + 1].vpot.center = center
        /\ strips[s + 1].vpot.value = d[2]
        /\ events = << <<"handleStripVPotDisplayRaw", s, value>>,
                       <<"handleStripVPotDisplay", s, d[1], center, d[2]>> >>

\* Boost with position 3 and the center dot, for strip 7: Pan at -3/5.
C10_Witness ==
  /\ op[1] = "dispatchPacket"
  /\ input = <<7, 64 + 16 + 3>>
  /\ strips[8].vpot = [mode |-> "Pan", center |-> TRUE, value |-> F32Div(-3, 5),
                       click |-> FALSE]

---------------------------------------------------------------------------
(* The range of the LED ring's value. *)

\* 0 <= f <= 1
F32InUnit(f) == f[2] = 0 \/ (f[1] = 1 /\ (f[3] >= 24 \/ f = F32One))

\* C11: in every state every strip's stored rotary value lies in [0, 1], and
\* so does the fraction of every handleStripVPotDisplay(strip, mode, center,
\* fraction) call, for every ring byte.
C11_VPotValueInUnit ==
  /\ \A s \in Strips : F32InUnit(strips[s + 1].vpot.value)
  /\ \A k \in 1..Len(events) :
       events[k][1] = "handleStripVPotDisplay" => F32InUnit(events[k][5])

---------------------------------------------------------------------------
(* Frames the codec must not take. *)

\* A frame shorter than 8 bytes, of another vendor, for another device, of
\* another type, or with text behind the display's 112 characters.
Malformed(buffer) ==
  \/ Len(buffer) < 8
  \/ <<buffer[2], buffer[3], buffer[4]>> # <<0, 0, 102>>
  \/ buffer[5] \notin {20, 21}
  \/ buffer[6] # 18
  \/ buffer[7] + (Len(buffer) - 8) > 112

\* C12: a malformed frame leaves the display, every strip's cached text
\* and all other state as they were, and calls no handler.
C12_MalformedFramesDropped ==
  [][(IsFrame(op') /\ Malformed(op'[2])) =>
       /\ UNCHANGED codec
       /\ events' = <<>>]_vars

\* A frame of another vendor was dropped by a codec showing "MASTER".
C12_Witness ==
  /\ IsFrame(op)
  /\ Malformed(op[2])
  /\ <<op[2][2], op[2][3], op[2][4]>> = <<0, 1, 102>>
  /\ getStripDisplay(State, 0, 0) = TextMaster
  /\ events = <<>>

---------------------------------------------------------------------------
(* The overload encoder: the host has set some strips' overload flags, the  *)
(* caller encodes a flag for a strip and the codec decodes the packet.      *)

\* Overload messages of the host per behaviour of the overload specification.
MaxOverloads == 2

OverloadInit ==
  /\ now = U32(1000)
  /\ InitCodec /\ InitHistory /\ InitCall
  /\ packet = NULL
  /\ input \in {<<strip, overload>> : strip \in Strips, overload \in BOOLEAN}

\* The host's meter message with low nibble 14 for a strip.
HostOverload ==
  \E s \in Strips :
    /\ packet = NULL
    /\ nops < MaxOverloads
    /\ Apply(dispatchPacket(State, now, setAftertouchChannel(0, BitOr(s * 16, 14))))
    /\ op' = <<"dispatchPacket", setAftertouchChannel(0, BitOr(s * 16, 14))>>
    /\ nops' = nops + 1
    /\ meterTime' = [meterTime EXCEPT ![s + 1] = now]
    /\ UNCHANGED <<now, hbPending, hbTime, lastNote, shown, packet, input>>

\* setStripMeterOverload(&packet, strip, overload)
EncodeOverload ==
  /\ packet = NULL
  /\ packet' = setStripMeterOverload(input[1], input[2])
  /\ op' = <<"setStripMeterOverload", input[1], input[2]>>
  /\ events' = <<>>
  /\ UNCHANGED <<now, codec, nops, history, input>>

\* dispatchPacket(&packet)
DispatchOverload ==
  /\ packet # NULL
  /\ op[1] = "setStripMeterOverload"
  /\ Apply(dispatchPacket(State, now, packet))
  /\ op' = <<"dispatchPacket", packet>>
  /\ meterTime' = [meterTime EXCEPT ![(ShiftRight(packet.data1, 4) % 8) + 1] = now]
  /\ UNCHANGED <<now, nops, hbPending, hbTime, lastNote, shown, packet, input>>

OverloadNext == HostOverload \/ EncodeOverload \/ DispatchOverload

SpecOverload == OverloadInit /\ [][OverloadNext]_vars

\* C13: setStripMeterOverload(strip, overload) makes the channel-0 meter
\* message with the strip in the high nibble and 14 (overload) or 15 (no
\* overload) in the low nibble, and dispatching it sets, or clears, the
\* overload flag of that strip and of no other.
C13_OverloadEncoder ==
  [][(op'[1] = "dispatchPacket" /\ packet # NULL) =>
       /\ packet = Packet("AftertouchChannel", 0,
                          (16 * input[1]) + (IF input[2] THEN 14 ELSE 15), 0)
       /\ strips'[input[1] + 1].meter.overload = input[2]
       /\ \A s \in Strips \ {input[1]} :
            strips'[s + 1].meter.overload = strips[s + 1].meter.overload]_vars

\* C23 as stated: every message setStripMeterOverload makes has low nibble
\* 15, whatever the strip and the overload flag, so that none sets overload.
C23_AlwaysClear ==
  [][op'[1] = "setStripMeterOverload" => BitAnd(packet'.data1, 15) = 15]_vars

\* C23: setStripMeterOverload makes the channel-0 meter message with
\* pressure 15 (clear, strip 0) for strip 0 with overload false and with
\* pressure 14 (set, strip 0) for every other call, strips 1..7 with
\* overload false included; the high nibble is 0 for every strip, and
\* dispatching the message sets, or clears, strip 0's flag only.
C23_OverloadEncoderAsWritten ==
  [][/\ op'[1] = "setStripMeterOverload" =>
          packet' = Packet("AftertouchChannel", 0,
                           IF op'[2] = 0 /\ ~op'[3] THEN 15 ELSE 14, 0)
     /\ (op'[1] = "dispatchPacket" /\ packet # NULL) =>
          /\ strips'[1].meter.overload = ~(input[1] = 0 /\ ~input[2])
          /\ \A s \in 1..7 :
               strips'[s + 1].meter.overload = strips[s + 1].meter.overload]_vars

\* setStripMeterOverload(&packet, 7, false) has made the message that sets
\* strip 0's overload.
C23_Witness ==
  /\ op = <<"setStripMeterOverload", 7, FALSE>>
  /\ packet = setAftertouchChannel(0, 14)

---------------------------------------------------------------------------
(* setStripText(): the caller hands in a buffer and a text of any length.   *)

\* The longest text of the text specification, and the bytes of the
\* caller's buffer the model follows.
MaxTextLen == 9
TextBufferSize == 24

\* "MASTERS1234567890"
TextLong == <<77, 65, 83, 84, 69, 82, 83, 49, 50, 51, 52, 53, 54, 55, 56, 57, 48>>

Texts == {SubSeq(TextLong, 1, n) : n \in 0..MaxTextLen}

\* The caller's buffer before the call: nothing written yet.
TextBuffer == [i \in 1..TextBufferSize |-> "untouched"]

\* memcpy(buffer + at - 1, bytes, Len(bytes)), as far as the model follows
\* the buffer.
Overwrite(buffer, at, bytes) ==
  [i \in 1..Len(buffer) |->
     IF at <= i /\ i < at + Len(bytes) THEN bytes[i - at + 1] ELSE buffer[i]]

\* What memset(buffer + len, ' ', 7 - textlen) does for textlen > 7, where
\* 7 - textlen converts to a size near SIZE_MAX: it fills the memory behind
\* the text with spaces until the access faults, or until it returns.
TextOverrun == {"fault", "fill"}

\* setStripText(buffer, strip, row, text): whether it returns, the length it
\* returns and the buffer it leaves.
setStripTextCall(buffer, strip, row, text, ub) ==
  LET head == <<240>> \o VendorId \o <<DeviceControl, TypeDisplay, (56 * row) + (7 * strip)>>
      textlen == Len(text)
      copied == Overwrite(Overwrite(buffer, 1, head), 8, text)
      filled == [i \in 1..Len(buffer) |-> IF i >= 8 + textlen THEN Space ELSE copied[i]]
  IN  IF textlen <= 7
      THEN [returned |-> TRUE, len |-> 15,
            buffer |-> Overwrite(buffer, 1, setStripText(strip, row, text))]
      ELSE IF ub = "fault"
      THEN [returned |-> FALSE, len |-> 0, buffer |-> filled]
      ELSE [returned |-> TRUE, len |-> (7 + textlen + 256 + 7 - textlen + 1) % 256,
            buffer |-> Overwrite(filled, ((7 + textlen + 256 + 7 - textlen) % 256) + 1, <<247>>)]

TextInit ==
  /\ now = U32(1000)
  /\ InitCodec /\ InitHistory /\ InitCall
  /\ packet = NULL
  /\ input \in {<<strip, row, text>> : strip \in Strips, row \in Rows, text \in Texts}

EncodeText ==
  \E ub \in TextOverrun :
    /\ op = <<"begin">>
    /\ op' = <<"setStripText", setStripTextCall(TextBuffer, input[1], input[2], input[3], ub)>>
    /\ events' = <<>>
    /\ UNCHANGED <<now, codec, nops, history, packet, input>>

TextNext == EncodeText

SpecText == TextInit /\ [][TextNext]_vars

\* The text cut to 7 characters, or filled up with spaces to 7.
Text7(text) == [i \in 1..7 |-> IF i <= Len(text) THEN text[i] ELSE 32]

\* C14: for a text of any length setStripText returns 15 and leaves in the
\* buffer F0 00 00 66 14 12, the offset 56 * row + 7 * strip, the text cut
\* or padded to 7 characters, and F7; it writes no byte behind these 15.
C14_TextFrameOf15Bytes ==
  op[1] = "setStripText" =>
    /\ op[2].returned
    /\ op[2].len = 15
    /\ SubSeq(op[2].buffer, 1, 15) =
         <<240, 0, 0, 102, 20, 18, (56 * input[2]) + (7 * input[1])>>
         \o Text7(input[3]) \o <<247>>
    /\ \A i \in 16..TextBufferSize : op[2].buffer[i] = "untouched"

---------------------------------------------------------------------------
(* The button encoders, and the buttons' way back through dispatchNote().   *)

\* Mackie::Transport, Bank, Modifier, Navigation: the note of each button.
TransportNotes ==
  [Rewind |-> 91, Forward |-> 92, Stop |-> 93, Play |-> 94, Record |-> 95]
BankNotes ==
  [Previous |-> 46, Next |-> 47, PreviousChannel |-> 48, NextChannel |-> 49,
   Flip |-> 50, Edit |-> 51]
ModifierNotes == [Shift |-> 70, Option |-> 71, Control |-> 72, Alt |-> 73]
NavigationNotes ==
  [Up |-> 96, Down |-> 97, Left |-> 98, Right |-> 99, Zoom |-> 100, Scrub |-> 101]
StripButtonNotes ==
  [VPot |-> VPotPush, Arm |-> ButtonArm, Mute |-> ButtonMute,
   Select |-> ButtonSelect, Solo |-> ButtonSolo, Touch |-> FaderTouch]
FunctionF1 == 54
MainTouch == 112

\* on ? 127 : 0
OnVelocity(on) == IF on THEN 127 ELSE 0

\* The switch over the enumerators, with default: return NULL.
setKindButton(notes, button, on) ==
  IF button \in DOMAIN notes THEN setNote(0, notes[button], OnVelocity(on)) ELSE NULL

setStripButton(strip, button, on) ==
  IF button \in DOMAIN StripButtonNotes
  THEN setNote(0, StripButtonNotes[button] + strip, OnVelocity(on))
  ELSE NULL
setTransportButton(button, on) == setKindButton(TransportNotes, button, on)
setBankButton(button, on) == setKindButton(BankNotes, button, on)
setModifierButton(button, on) == setKindButton(ModifierNotes, button, on)
setNavigationButton(button, on) == setKindButton(NavigationNotes, button, on)
setFunctionButton(function, on) == setNote(0, FunctionF1 + function, OnVelocity(on))
setTouch(on) == setNote(0, MainTouch, OnVelocity(on))

\* A call of an encoder: its name and arguments.
ButtonEncode(call) ==
  CASE call[1] = "setStripButton" -> setStripButton(call[2], call[3], call[4])
    [] call[1] = "setTransportButton" -> setTransportButton(call[2], call[3])
    [] call[1] = "setBankButton" -> setBankButton(call[2], call[3])
    [] call[1] = "setModifierButton" -> setModifierButton(call[2], call[3])
    [] call[1] = "setNavigationButton" -> setNavigationButton(call[2], call[3])
    [] call[1] = "setFunctionButton" -> setFunctionButton(call[2], call[3])
    [] call[1] = "setTouch" -> setTouch(call[2])

\* The calls of the button specification: every enumerator and a value that
\* is none ("Other"), strips 0, 7, 8 and 15, functions 0, 15, 16 and 42.
ButtonCalls ==
  {<<"setStripButton", strip, b, on>> :
     strip \in {0, 7, 8, 15}, b \in DOMAIN StripButtonNotes \cup {"Other"}, on \in BOOLEAN}
  \cup {<<"setTransportButton", b, on>> :
          b \in DOMAIN TransportNotes \cup {"Other"}, on \in BOOLEAN}
  \cup {<<"setBankButton", b, on>> : b \in DOMAIN BankNotes \cup {"Other"}, on \in BOOLEAN}
  \cup {<<"setModifierButton", b, on>> :
          b \in DOMAIN ModifierNotes \cup {"Other"}, on \in BOOLEAN}
  \cup {<<"setNavigationButton", b, on>> :
          b \in DOMAIN NavigationNotes \cup {"Other"}, on \in BOOLEAN}
  \cup {<<"setFunctionButton", f, on>> : f \in {0, 15, 16, 42}, on \in BOOLEAN}
  \cup {<<"setTouch", on>> : on \in BOOLEAN}

ButtonsInit ==
  /\ now = U32(1000)
  /\ InitCodec /\ InitHistory /\ InitCall
  /\ packet = NULL
  /\ input \in ButtonCalls

\* The encoder call; packet is the pointer it returns.
EncodeButton ==
  /\ op = <<"begin">>
  /\ packet' = ButtonEncode(input)
  /\ op' = <<"encode", input[1]>>
  /\ events' = <<>>
  /\ UNCHANGED <<now, codec, nops, history, input>>

\* dispatchPacket(packet) for the packet an encoder returned.
DispatchButton ==
  /\ packet # NULL
  /\ op[1] = "encode"
  /\ Apply(dispatchPacket(State, now, packet))
  /\ op' = <<"dispatchPacket", packet>>
  /\ UNCHANGED <<now, nops, history, packet, input>>

ButtonsNext == EncodeButton \/ DispatchButton

SpecButtons == ButtonsInit /\ [][ButtonsNext]_vars

\* The notes of the control a call asks for: none for a kind or value the
\* encoder's interface does not have.
ButtonAddresses(call) ==
  CASE call[1] = "setStripButton" ->
         IF call[3] \in DOMAIN StripButtonNotes /\ call[2] \in 0..7
         THEN {StripButtonNotes[call[3]] + call[2]} ELSE {}
    [] call[1] = "setTransportButton" ->
         IF call[2] \in DOMAIN TransportNotes THEN {TransportNotes[call[2]]} ELSE {}
    [] call[1] = "setBankButton" ->
         IF call[2] \in DOMAIN BankNotes THEN {BankNotes[call[2]]} ELSE {}
    [] call[1] = "setModifierButton" ->
         IF call[2] \in DOMAIN ModifierNotes THEN {ModifierNotes[call[2]]} ELSE {}
    [] call[1] = "setNavigationButton" ->
         IF call[2] \in DOMAIN NavigationNotes THEN {NavigationNotes[call[2]]} ELSE {}
    [] call[1] = "setFunctionButton" ->
         IF call[2] \in 0..15 THEN {54 + call[2]} ELSE {}
    [] call[1] = "setTouch" -> {112}

\* C15: a button encoder returns NULL or a note-on on channel 0 with
\* velocity 127 (on) or 0 (off) at the address of the control asked for; for
\* a kind it does not know, a function outside 0..15 or a strip outside 0..7
\* it returns NULL.
C15_ButtonEncoders ==
  op[1] = "encode" =>
    \/ packet = NULL
    \/ /\ packet.type = "NoteOn"
       /\ packet.channel = 0
       /\ packet.data2 = (IF input[Len(input)] THEN 127 ELSE 0)
       /\ packet.data1 \in ButtonAddresses(input)

---------------------------------------------------------------------------
(* The counter's wrap: heartbeats and meter messages arrive at any count,   *)
(* time passes, the sketch calls loop().                                    *)

WrapInit ==
  /\ now \in InitTimes
  /\ InitCodec /\ InitHistory /\ InitCall
  /\ packet = NULL
  /\ input = <<>>

\* A meter message with level 6 for strip 0 or 7.
WrapMeter ==
  \E s \in MeterStrips :
    /\ Apply(dispatchPacket(State, now, setAftertouchChannel(0, BitOr(s * 16, 6))))
    /\ op' = <<"dispatchPacket", setAftertouchChannel(0, BitOr(s * 16, 6))>>
    /\ meterTime' = [meterTime EXCEPT ![s + 1] = now]
    /\ UNCHANGED <<now, nops, hbPending, hbTime, lastNote, shown, packet, input>>

WrapNext == Tick \/ Ping \/ WrapMeter \/ Loop

SpecWrap == WrapInit /\ [][WrapNext]_vars

\* C16: loop() decides by the elapsed time now - last (modulo 2^32) alone,
\* whatever the counter read when the heartbeat or the meter message
\* arrived, 0 included: it calls handleTimeout exactly when more than 5
\* seconds have passed since the pending heartbeat, and it zeroes a nonzero
\* meter exactly when its last message is at least 1 second old.
C16_ElapsedTimeDecides ==
  [][/\ IF op' = <<"loop">> /\ HbLapsed
        THEN Calls(events', "handleTimeout") # <<>>
        ELSE Calls(events', "handleTimeout") = <<>>
     /\ MeterDecayWhen(LAMBDA elapsed : ~U32Lt(elapsed, DecayUsec))]_vars

---------------------------------------------------------------------------
(* The buttons without a strip, from the encoder to the handler. *)

\* The handler of each button class.
ButtonHandler ==
  [setTransportButton |-> "handleTransportButton", setBankButton |-> "handleBankButton",
   setModifierButton |-> "handleModifierButton",
   setNavigationButton |-> "handleNavigationButton"]

\* The latches the state keeps for buttons without a strip: members of
\* _transport, _bank and _navigation.
ButtonLatches ==
  [setTransportButton |->
     [Rewind |-> transport.rewind, Forward |-> transport.forward, Stop |-> transport.stop,
      Play |-> transport.play, Record |-> transport.record],
   setBankButton |-> [Flip |-> bank.flip, Edit |-> bank.edit],
   setModifierButton |-> <<>>,
   setNavigationButton |-> [Zoom |-> navigation.zoom, Scrub |-> navigation.scrub]]

\* C17: for every kind setTransportButton, setBankButton, setModifierButton
\* and setNavigationButton accept, and on or off, dispatching the encoded
\* packet calls the class's handler exactly once with the same (kind, on),
\* calls nothing else, and sets the kind's latch to on where the state has
\* one.
C17_ButtonsDecodeAsEncoded ==
  (op[1] = "dispatchPacket" /\ input[1] \in DOMAIN ButtonHandler) =>
    /\ events = <<<<ButtonHandler[input[1]], input[2], input[3]>>>>
    /\ input[2] \in DOMAIN ButtonLatches[input[1]] =>
         ButtonLatches[input[1]][input[2]] = input[3]

---------------------------------------------------------------------------
(* The meters' messages: any level or overload nibble, on channel 0 and on  *)
(* other channels, at any time.                                             *)

\* Steps (messages and ticks) per behaviour of the meter-message
\* specification.
MaxMeters == 2

MessageStrips == {0, 3, 7}
Nibbles == 0..15

\* Channel pressure on channels 1 and 15, for strip 3: level 6, overload.
OtherChannelMeters ==
  {setAftertouchChannel(1, 54), setAftertouchChannel(15, 54), setAftertouchChannel(1, 62)}

MetersInit ==
  /\ now \in MeterInitTimes
  /\ InitCodec /\ InitHistory /\ InitCall
  /\ packet = NULL
  /\ input = <<>>

MetersTick ==
  \E d \in MeterTickSteps :
    /\ nops < MaxMeters
    /\ now' = U32Add(now, d)
    /\ nops' = nops + 1
    /\ op' = <<"tick", d>>
    /\ events' = <<>>
    /\ UNCHANGED <<codec, history, packet, input>>

MeterMessage ==
  \E s \in MessageStrips, v \in Nibbles :
    /\ nops < MaxMeters
    /\ Apply(dispatchPacket(State, now, setAftertouchChannel(0, BitOr(s * 16, v))))
    /\ op' = <<"dispatchPacket", setAftertouchChannel(0, BitOr(s * 16, v))>>
    /\ nops' = nops + 1
    /\ meterTime' = [meterTime EXCEPT ![s + 1] = now]
    /\ UNCHANGED <<now, hbPending, hbTime, lastNote, shown, packet, input>>

OtherChannelMeter ==
  \E p \in OtherChannelMeters :
    /\ Apply(dispatchPacket(State, now, p))
    /\ op' = <<"dispatchPacket", p>>
    /\ UNCHANGED <<now, nops, history, packet, input>>

MetersNext == MetersTick \/ MeterMessage \/ OtherChannelMeter

SpecMeters == MetersInit /\ [][MetersNext]_vars

\* The step dispatches channel pressure.
IsPressure(o) == o[1] = "dispatchPacket" /\ o[2].type = "AftertouchChannel"

\* The handleStripMeterOverload calls among a call's notifications.
OverloadCalls(ev) == SelectSeq(ev, LAMBDA e : e[1] = "handleStripMeterOverload")

\* C18: a channel-0 pressure message for strip s stamps the strip's meter
\* with the current time and calls handleStripMeter(s, fraction, overload)
\* exactly once, with the meter as the message leaves it; it calls
\* handleStripMeterOverload(s, true) only for nibble 14 on a clear flag and
\* handleStripMeterOverload(s, false) only for nibble 15 on a set flag, and
\* nothing else; pressure on another channel changes and calls nothing.
C18_MeterMessages ==
  [][IsPressure(op') =>
       IF op'[2].channel = 0
       THEN LET s == op'[2].data1 \div 16
                v == op'[2].data1 % 16
                old == strips[s + 1].meter
                new == strips'[s + 1].meter
            IN  /\ new.usec = now'
                /\ Calls(events', "handleStripMeter") =
                     <<<<"handleStripMeter", s, new.fraction, new.overload>>>>
                /\ OverloadCalls(events') =
                     IF v = 14 /\ ~old.overload
                       THEN <<<<"handleStripMeterOverload", s, TRUE>>>>
                     ELSE IF v = 15 /\ old.overload
                       THEN <<<<"handleStripMeterOverload", s, FALSE>>>>
                     ELSE <<>>
                /\ Len(events') = 1 + Len(OverloadCalls(events'))
       ELSE /\ UNCHANGED codec
            /\ events' = <<>>]_vars

\* Some time after begin(), nibble 14 has set strip 7's clear overload flag.
C18_Witness ==
  /\ op = <<"dispatchPacket", setAftertouchChannel(0, 126)>>
  /\ events = << <<"handleStripMeterOverload", 7, TRUE>>,
                 <<"handleStripMeter", 7, F32Zero, TRUE>> >>
  /\ strips[8].meter.usec = now
  /\ now \notin MeterInitTimes

\* C19: a meter message with nibble 14 or 15 leaves the strip's fraction as
\* it was, one with nibble 0..13 leaves its overload flag as it was, and
\* every meter message leaves the other seven strips' meters (fraction,
\* overload, time) as they were.
C19_MeterFrame ==
  [][(IsPressure(op') /\ op'[2].channel = 0) =>
       LET s == op'[2].data1 \div 16
           v == op'[2].data1 % 16
       IN  /\ v \in {14, 15} =>
                strips'[s + 1].meter.fraction = strips[s + 1].meter.fraction
           /\ v \in 0..13 =>
                strips'[s + 1].meter.overload = strips[s + 1].meter.overload
           /\ \A o \in Strips \ {s} : strips'[o + 1].meter = strips[o + 1].meter]_vars

\* Strip 3 shows level 6 with its overload flag set: the flag came after
\* the level, or the level after the flag; strip 0's meter is untouched.
C19_Witness ==
  /\ IsPressure(op)
  /\ strips[4].meter.fraction = F32Div(6, 12)
  /\ strips[4].meter.overload
  /\ strips[1].meter = StripZero.meter


---------------------------------------------------------------------------
(* Pitch bend: the host moves the strips' faders and the main fader, and    *)
(* sends pitch bend on channels no fader listens to.                        *)

MaxBends == 2

BendChannels == {0, 7, 8, 9, 15}
BendValues == {-8192, -1, 0, 8176, 8177, 8191}

BendInit ==
  /\ now = U32(1000)
  /\ InitCodec /\ InitHistory /\ InitCall
  /\ packet = NULL
  /\ input = <<>>

\* dispatchPacket(&packet) of a pitch-bend packet
Bend ==
  \E c \in BendChannels, v \in BendValues :
    /\ nops < MaxBends
    /\ Apply(dispatchPacket(State, now, setPitchBend(c, v)))
    /\ op' = <<"dispatchPacket", setPitchBend(c, v)>>
    /\ nops' = nops + 1
    /\ input' = <<c, v>>
    /\ UNCHANGED <<now, history, packet>>

BendNext == Bend

SpecPitchBend == BendInit /\ [][BendNext]_vars

\* (value + 8192) / 16368 of the value brought into [-8192, 8176].
BendExpected(v) ==
  LET low == IF v < -8192 THEN -8192 ELSE v
      high == IF low > 8176 THEN 8176 ELSE low
  IN  F32Div(high + 8192, 16368)

\* C20: a pitch-bend message with value v yields the fraction
\* (clamp(v, -8192, 8176) + 8192) / 16368, which lies in [0, 1]; on channel
\* c in 0..7 only strip c's fader position changes, to the fraction, and the
\* only call is handleStripFader(c, fraction); on channel 8 only the main
\* fader changes and the only call is handleFader(fraction); on channels
\* 9..15 nothing changes and nothing is called.
C20_PitchBendDecode ==
  [][(op'[1] = "dispatchPacket" /\ op'[2].type = "PitchBend") =>
       LET c == op'[2].channel
           v == getPitchBend(op'[2])
           fraction == BendExpected(v)
       IN  /\ v = input'[2]
           /\ F32InUnit(fraction)
           /\ v = -8192 => fraction = F32Zero
           /\ v >= 8176 => fraction = F32One
           /\ UNCHANGED <<active_usec, display, timeType, timeDigits, bank,
                          transport, navigation>>
           /\ IF c \in 0..7 THEN
                /\ strips' = [strips EXCEPT ![c + 1].fader.position = fraction]
                /\ UNCHANGED main
                /\ events' = << <<"handleStripFader", c, fraction>> >>
              ELSE IF c = 8 THEN
                /\ main' = [main EXCEPT !.fader = fraction]
                /\ UNCHANGED strips
                /\ events' = << <<"handleFader", fraction>> >>
              ELSE
                /\ UNCHANGED <<strips, main>>
                /\ events' = <<>>]_vars

\* A value above the clamp has put strip 7's fader at the top after the
\* main fader was moved.
C20_Witness ==
  /\ op = <<"dispatchPacket", setPitchBend(7, 8191)>>
  /\ events = << <<"handleStripFader", 7, F32One>> >>
  /\ strips[8].fader.position = F32One
  /\ main.fader # F32Zero
  /\ strips[1].fader.position = F32Zero


---------------------------------------------------------------------------
(* A session: the host fills the codec's state, time passes, the sketch     *)
(* calls loop(), and the host sends the controllers that reset the codec.   *)

MaxSetups == 2

\* The heartbeat of the host.
IsPing(p) == p.type \in {"NoteOn", "NoteOff"} /\ p.channel = 15 /\ p.data1 = ProtocolPing
\* A controller that resets the codec.
IsResetCC(p) == p.type = "ControlChange" /\ p.channel = 0 /\ IsResetController(p.data1)

\* dispatchPacket(&p), with the history the step leaves.
Receive(p) ==
  /\ Apply(dispatchPacket(State, now, p))
  /\ op' = <<"dispatchPacket", p>>
  /\ hbPending' = IF IsPing(p) THEN TRUE ELSE IF IsResetCC(p) THEN FALSE ELSE hbPending
  /\ hbTime' = IF IsPing(p) THEN now ELSE hbTime
  /\ meterTime' = IF p.type = "AftertouchChannel" /\ p.channel = 0
                  THEN [meterTime EXCEPT ![ShiftRight(p.data1, 4) + 1] = now]
                  ELSE meterTime
  /\ lastNote' = IF p.type \in {"NoteOn", "NoteOff"} /\ p.channel = 0
                 THEN [n \in DOMAIN lastNote \cup {p.data1} |->
                         IF n = p.data1 THEN NoteVelocity(p) ELSE lastNote[n]]
                 ELSE lastNote
  /\ shown' = IF IsResetCC(p) THEN ShownReset ELSE shown
  /\ UNCHANGED <<now, packet, input>>

\* One message for each part of the state: strip button, v-pot ring, strip
\* fader, meter level and overload, main fader, bank, transport and
\* navigation latches, a time digit and the heartbeat.
SetupPackets ==
  { setStripButton(0, "Arm", TRUE), setControlChange(0, VPotLED + 7, 22),
    setPitchBend(0, 8176), setAftertouchChannel(0, 6), setAftertouchChannel(0, 126),
    setPitchBend(8, 0), setBankButton("Flip", TRUE), setTransportButton("Play", TRUE),
    setNavigationButton("Zoom", TRUE), setControlChange(0, TimeDigit, 49),
    setNote(15, ProtocolPing, 90) }

\* Reset controllers on channels the codec does not listen to.
OtherChannelResets ==
  {setControlChange(c, cc, 0) : c \in {1, 15}, cc \in {AllSoundOff, AllNotesOff}}

Setup ==
  \E p \in SetupPackets :
    /\ nops < MaxSetups
    /\ Receive(p)
    /\ nops' = nops + 1

\* "MASTER" at strip 0, row 0
SetupFrame ==
  /\ nops < MaxSetups
  /\ Apply(dispatchSystemExclusive(State, MasterFrame,
                                   [differ |-> FALSE, global |-> FALSE,
                                    mode |-> "Off", center |-> FALSE]))
  /\ op' = <<"dispatchSystemExclusive", MasterFrame>>
  /\ nops' = nops + 1
  /\ shown' = [b \in 1..16 |->
                 IF DisplayCalls(events', (b - 1) % 8, (b - 1) \div 8) # <<>>
                 THEN DisplayBlock(display', (b - 1) % 8, (b - 1) \div 8)
                 ELSE shown[b]]
  /\ UNCHANGED <<now, hbPending, hbTime, meterTime, lastNote, packet, input>>

OtherReset ==
  \E p \in OtherChannelResets :
    /\ Receive(p)
    /\ UNCHANGED nops

ResetNext == Setup \/ SetupFrame \/ Tick \/ Loop \/ ResetCC \/ OtherReset

SpecReset == DisplayInit /\ [][ResetNext]_vars

\* C21: AllSoundOff or AllNotesOff on channel 0 leaves exactly the state of
\* reset() and calls nothing: no heartbeat, a display of spaces (so that
\* getStripDisplay gives the empty string for every strip and row), zeroed
\* strips, main, bank, transport and navigation, cleared time digits; on
\* another channel it changes and calls nothing; and while no heartbeat has
\* arrived since a reset, loop() calls no handleTimeout.
C21_ControllerReset ==
  [][/\ (op'[1] = "dispatchPacket" /\ op'[2].type = "ControlChange"
           /\ op'[2].data1 \in {AllSoundOff, AllNotesOff}) =>
          /\ events' = <<>>
          /\ IF op'[2].channel = 0
             THEN /\ active_usec' = U32Zero
                  /\ \A i \in 1..DisplaySize : display'[i] = Space
                  /\ \A strip \in Strips, row \in Rows :
                       getStripDisplay(State', strip, row) = <<>>
                  /\ \A s \in 1..8 : strips'[s] = StripZero
                  /\ main' = [fader |-> F32Zero]
                  /\ \A f \in DOMAIN bank' : ~bank'[f]
                  /\ \A f \in DOMAIN transport' : ~transport'[f]
                  /\ \A f \in DOMAIN navigation' : ~navigation'[f]
                  /\ \A i \in 1..10 : timeDigits'[i] = 0
                  /\ State' = reset
             ELSE UNCHANGED codec
     /\ (op' = <<"loop">> /\ ~hbPending) =>
          Calls(events', "handleTimeout") = <<>>]_vars

\* AllNotesOff has reset a codec that held a heartbeat and a playing
\* transport.
C21_Witness ==
  /\ op = <<"dispatchPacket", setControlChange(0, AllNotesOff, 0)>>
  /\ lastNote = (94 :> 127)
  /\ hbTime # U32Zero
  /\ ~hbPending
  /\ State = reset


---------------------------------------------------------------------------
(* getTime() *)

\* Remove dot; the codes below 32 are the letters.
get7Segment(b) == IF BitAnd(b, 63) < 32 THEN BitAnd(b, 63) + 64 ELSE BitAnd(b, 63)

\* The loop of getNumber() from its i-th pass on; digits is the array from
\* the pointer on (1-based), number is a uint16_t and factor a uint8_t.
RECURSIVE getNumberFrom(_, _, _, _, _)
getNumberFrom(digits, length, i, number, factor) ==
  IF i >= length THEN number
  ELSE LET c == get7Segment(digits[length - 1 - i + 1])
           digit == IF c >= 48 /\ c <= 57 THEN c - 48 ELSE 0
       IN  getNumberFrom(digits, length, i + 1,
                         (number + digit * factor) % 65536, (factor * 10) % 256)

getNumber(digits, length) == getNumberFrom(digits, length, 0, 0, 1)

\* The Time the caller finds: the type and the four numbers of its variant.
getTime(st) ==
  LET from(k) == SubSeq(st.timeDigits, k + 1, 10)
  IN  IF st.timeType = "SMPTE" THEN
        [type |-> "SMPTE", hours |-> getNumber(from(0), 3),
         minutes |-> getNumber(from(3), 2) % 256,
         seconds |-> getNumber(from(5), 2) % 256, frames |-> getNumber(from(7), 3)]
      ELSE
        [type |-> "Beats", bars |-> getNumber(from(0), 3),
         beats |-> getNumber(from(3), 2) % 256,
         subdivision |-> getNumber(from(5), 2) % 256, ticks |-> getNumber(from(7), 3)]

---------------------------------------------------------------------------
(* The time display: the host writes digits, the sketch reads the time.     *)

MaxDigits == 2

\* Controllers of the positions 9, 7, 5, 3, 2 and 0.
DigitControllers == {64, 66, 68, 70, 71, 73}
\* " ", "1", "9", "1." and the letter Q.
DigitValues == {32, 49, 57, 113, 17}

DigitCC ==
  \E c \in DigitControllers, v \in DigitValues :
    /\ nops < MaxDigits
    /\ Receive(setControlChange(0, c, v))
    /\ nops' = nops + 1

GetTime ==
  /\ op' = <<"getTime", getTime(State)>>
  /\ events' = <<>>
  /\ UNCHANGED <<now, codec, nops, history, packet, input>>

TimeNext == DigitCC \/ GetTime

SpecTime == DisplayInit /\ [][TimeNext]_vars

\* The digit a byte of the time display shows: its low 6 bits when they are
\* an ASCII digit, or else 0.
DigitOf(b) == IF b % 64 \in 48..57 THEN (b % 64) - 48 ELSE 0

\* The decimal number of the digits at positions first..last.
RECURSIVE GroupNumber(_, _, _)
GroupNumber(digits, first, last) ==
  IF last < first THEN 0
  ELSE 10 * GroupNumber(digits, first, last - 1) + DigitOf(digits[last + 1])

\* C22: controller c in 64..73 with value v on channel 0 writes v at digit
\* position 73 - c, leaves the other nine digits alone and calls handleTime
\* once, with the current type, and nothing else; getTime gives for the
\* positions 0..2, 3..4, 5..6 and 7..9 the decimal number of the group's
\* digits, a byte whose low 6 bits are no ASCII digit counting as 0.
C22_TimeDisplay ==
  [][/\ (op'[1] = "dispatchPacket" /\ op'[2].type = "ControlChange"
           /\ op'[2].channel = 0 /\ op'[2].data1 \in 64..73) =>
          /\ timeDigits' = [timeDigits EXCEPT ![73 - op'[2].data1 + 1] = op'[2].data2]
          /\ events' = << <<"handleTime", timeType>> >>
          /\ UNCHANGED timeType
     /\ op'[1] = "getTime" =>
          /\ op'[2].type = timeType
          /\ op'[2].type = "SMPTE" =>
               /\ op'[2].hours = GroupNumber(timeDigits, 0, 2)
               /\ op'[2].minutes = GroupNumber(timeDigits, 3, 4)
               /\ op'[2].seconds = GroupNumber(timeDigits, 5, 6)
               /\ op'[2].frames = GroupNumber(timeDigits, 7, 9)
          /\ op'[2].type = "Beats" =>
               /\ op'[2].bars = GroupNumber(timeDigits, 0, 2)
               /\ op'[2].beats = GroupNumber(timeDigits, 3, 4)
               /\ op'[2].subdivision = GroupNumber(timeDigits, 5, 6)
               /\ op'[2].ticks = GroupNumber(timeDigits, 7, 9)]_vars

\* getTime after "1" at position 0 and "1." at position 9: hours 100, frame 1.
C22_Witness ==
  /\ op = <<"getTime", [type |-> "SMPTE", hours |-> 100, minutes |-> 0,
                        seconds |-> 0, frames |-> 1]>>
  /\ timeDigits[1] = 49
  /\ timeDigits[10] = 113


---------------------------------------------------------------------------
(* The blocks of the display a frame makes the codec look at. *)

\* first .. last, the count blocks of the for statement.
ComparedBlocks(buffer) ==
  (buffer[7] \div 7)..DisplayLast(buffer[7], Len(buffer) - 8)

\* C24: for every frame the codec accepts, every block it compares, caches
\* or notifies has an index in 0..15: strip in 0..7 and row in 0..1.
C24_BlocksWithinDisplay ==
  [][(IsFrame(op') /\ ~Malformed(op'[2])) =>
       /\ ComparedBlocks(op'[2]) \subseteq 0..15
       /\ \A k \in 1..Len(events') :
            events'[k][1] = "handleStripDisplay" =>
              events'[k][3] \in Strips /\ events'[k][4] \in Rows]_vars


\* C25: in every reachable state each strip's cached text of each row is
\* the 7 characters of the display at row * 56 + strip * 7, so that a frame
\* rewriting a block with the characters it holds is not notified.
C25_CacheCoherence ==
  \A strip \in Strips, row \in Rows :
    strips[strip + 1].display[row + 1] = DisplayBlock(display, strip, row)


\* C26: a strip's stored overload flag is the value of the strip's most
\* recent handleStripMeterOverload call (false before the first); that is,
\* whatever the operation (meter message, loop(), reset), the flag changes
\* only in a step that makes exactly one such call for the strip, carrying
\* the new value, and no step makes such a call without changing the flag.
C26_OverloadFollowsNotification ==
  [][\A s \in Strips :
       LET calls == SelectSeq(OverloadCalls(events'), LAMBDA e : e[2] = s)
       IN  IF strips'[s + 1].meter.overload # strips[s + 1].meter.overload
           THEN calls = << <<"handleStripMeterOverload", s,
                             strips'[s + 1].meter.overload>> >>
           ELSE calls = <<>>]_vars


---------------------------------------------------------------------------
(* The meters for ever: the sketch calls loop() again and again while time  *)
(* advances, and the host sends a few meter messages.                       *)

MaxLiveMeters == 2

\* A level and an overload for the first and the last strip.
LiveMeters == {setAftertouchChannel(0, BitOr(s * 16, v)) : s \in {0, 7}, v \in {6, 14}}

\* Time passes between two calls of loop(): 2^29 us, so that micros() wraps
\* after 8 steps.
LiveTick ==
  /\ op = <<"loop">>
  /\ now' = U32Add(now, Pow2(29))
  /\ op' = <<"tick", Pow2(29)>>
  /\ events' = <<>>
  /\ UNCHANGED <<codec, nops, history, packet, input>>

LiveMeter ==
  \E p \in LiveMeters :
    /\ nops < MaxLiveMeters
    /\ Receive(p)
    /\ nops' = nops + 1

LiveNext == LiveTick \/ LiveMeter \/ Loop

\* loop() is called repeatedly, and time advances.
SpecMeterLive ==
  DisplayInit /\ [][LiveNext]_vars /\ WF_vars(LiveTick) /\ WF_vars(Loop)

\* C27: with loop() called again and again while time advances, every strip
\* whose meter holds a level or a set overload flag eventually has fraction
\* 0 and overload false once its messages have ended (the host sends a
\* bounded number); a strip whose overload was set at fraction 0 included.
C27_MetersEventuallyClear ==
  \A s \in Strips :
    (strips[s + 1].meter.fraction # F32Zero \/ strips[s + 1].meter.overload)
      ~> (strips[s + 1].meter.fraction = F32Zero /\ ~strips[s + 1].meter.overload)


---------------------------------------------------------------------------
(* The type of the time display: the host sends the SMPTE/Beats note among  *)
(* digits, messages of every other kind, a display frame and resets.        *)

\* Mackie's SMPTE/Beats button, pressed and released, and as note off.
SMPTEBeatsPackets == {setNote(0, 53, 127), setNote(0, 53, 0), setNoteOff(0, 53)}

TimeNote ==
  \E p \in SMPTEBeatsPackets :
    /\ Receive(p)
    /\ UNCHANGED nops

TypeNext == DigitCC \/ GetTime \/ TimeNote \/ Setup \/ SetupFrame \/ ResetCC

SpecTimeType == DisplayInit /\ [][TypeNext]_vars

\* C28: in every reachable state the type of the time display is SMPTE:
\* every handleTime call carries SMPTE and getTime gives the SMPTE variant,
\* whatever the host has sent, the SMPTE/Beats note 53 included.
C28_TimeTypeIsSMPTE ==
  /\ timeType = "SMPTE"
  /\ \A k \in 1..Len(events) : events[k][1] = "handleTime" => events[k][2] = "SMPTE"
  /\ getTime(State).type = "SMPTE"
  /\ DOMAIN getTime(State) = {"type", "hours", "minutes", "seconds", "frames"}
  /\ op[1] = "getTime" => op[2].type = "SMPTE"

\* getTime after the SMPTE/Beats note was pressed and a digit written.
C28_Witness ==
  /\ op[1] = "getTime"
  /\ op[2].type = "SMPTE"
  /\ op[2].frames = 1
  /\ 53 \in DOMAIN lastNote
  /\ lastNote[53] = 127

=============================================================================
